---- MODULE Spec2Model ----
(***************************************************************************)
(* StreamVid backend: the request handlers of the like, subscription,      *)
(* comment, video and tweet controllers as a state machine over the        *)
(* document collections.  A handler suspends only at its database calls,   *)
(* so every action below is the code of one handler from one await to the  *)
(* next; requests in flight interleave at those points.                    *)
(***************************************************************************)
EXTENDS Integers, FiniteSets, Sequences, TLC

(* ------------------------------ bounds --------------------------------- *)
\* Requests that may be in flight (suspended at an await) at the same time.
MaxInflight == 2
\* Requests a behaviour issues in all.
MaxReq == 3
\* The same for the behaviours that mix the row-writing handlers.
MaxRowReq == 2
\* The same for the behaviours of one kind of toggle alone.
MaxToggleReq == 4
\* Records a list query matches at most.
MaxTotal == 12
\* Requests a behaviour of the session handlers issues in all.
MaxAuthReq == 4
\* Writes of other requests while one list handler is suspended.
MaxListWrites == 1
\* The most records whose order a sort leaves open.
MaxTied == 3

(* --------------------------- identifiers ------------------------------- *)
\* req.user is absent: getUserIdFromReq returns null.
NoUser == 0
\* A request parameter that is not a well-formed ObjectId.
BadId == -1
\* A field that is not set / a lookup that found nothing.
Null == 0

\* The User documents: 1 and 2 are plain users, 3 is an admin.
UserDocs ==
  { [id |-> 1, role |-> "user", isAdmin |-> FALSE],
    [id |-> 2, role |-> "user", isAdmin |-> FALSE],
    [id |-> 3, role |-> "admin", isAdmin |-> FALSE] }
UserIds == { u.id : u \in UserDocs }
UserDoc(uid) == CHOOSE u \in UserDocs : u.id = uid

\* Ids a request may carry.  Of each kind one id names a document that exists
\* at start, one is well-formed and names nothing, ever, and BadId is malformed.
InitVideos == {11}
VideoParams == {11, 19, BadId}
InitComments ==
  { [id |-> 21, content |-> <<"a">>, video |-> 11, owner |-> 1, updatedAt |-> 0] }
\* req.body.content: a string that needs trimming, a blank string, no string.
ContentParams ==
  { [str |-> TRUE, chars |-> <<" ", "b", " ">>],
    [str |-> TRUE, chars |-> <<" ">>],
    [str |-> FALSE, chars |-> <<>>] }
CommentParams == {21, 29, BadId}
\* The stored fields of the Video documents (videoSchema: title, owner, ...).
InitVideoDoc ==
  [v \in InitVideos |-> [owner |-> 1, title |-> "t0", description |-> "d0"]]
InitPlaylists ==
  { [id |-> 41, name |-> <<"p">>, description |-> <<"d">>, owner |-> 1,
     videos |-> <<>>] }
PlaylistParams == {41, 49, BadId}
\* The username and email of the User documents; usernames are kept as
\* sequences of characters.
InitUsers ==
  { [id |-> 1, username |-> <<"a">>, email |-> "e1"],
    [id |-> 2, username |-> <<"b">>, email |-> "e2"],
    [id |-> 3, username |-> <<"c">>, email |-> "e3"] }
\* The start-up script is not part of the behaviour.
NotBooting == [pc |-> "none"]
\* No list request has been made.
NoListRequest == [op |-> "none", status |-> 0]
\* No refresh token has been signed, sent or outlived a logout yet.
NoSess == [minted |-> 0, issued |-> {}, revoked |-> {}, overlap |-> {},
           redeemed |-> {}, again |-> {}]
\* JSON values by type: what a response body holds is told apart by type.
Undefined == [t |-> "undefined"]
Num(n) == [t |-> "number", n |-> n]
Bool == [t |-> "boolean"]
Str == [t |-> "string"]
Obj == [t |-> "object"]
NoWire == [op |-> "none", http |-> 0, fields |-> {}, statusCode |-> Undefined]
InitTweets == { [id |-> 31, owner |-> 1, content |-> <<"a">>] }
TweetParams == {31, 39, BadId}
ChannelParams == {1, 2, 9, BadId}

isValidObjectId(id) == id > 0

LikeOps == {"toggleVideoLike", "toggleCommentLike", "toggleTweetLike"}
ToggleOps == LikeOps \cup {"toggleSubscription"}
\* What a toggle switches: the row of an actor and a target, or the publish
\* flag of a video, which is the same for every actor.
ToggleKey(q) ==
  IF q.op = "togglePublishStatus" THEN <<q.op, NoUser, q.target>>
  ELSE <<q.op, q.actor, q.target>>

VARIABLES
  videos,         \* ids of the Video documents
  comments,       \* Comment documents [id, content, video, owner, updatedAt]
  tweets,         \* Tweet documents [id, owner]
  likes,          \* committed Like documents [n, video, comment, tweet, likedBy]
  subscriptions,  \* Subscription documents [n, subscriber, channel]
  reqs,           \* slot -> the request suspended there, or Idle
  clock,          \* the value new Date() returns next
  budget,         \* requests the behaviour may still issue
  resp,           \* the response sent by the step just taken, if any
  gone,           \* <<kind, id>> of the entities that were deleted
  odd,            \* toggle keys with an odd number of 200/201 responses so far
  iso,            \* observer of two toggles run back to back with nothing else
  videoDoc,       \* video id -> the stored fields of that Video document
  playlists,      \* Playlist documents [id, name, description, owner, videos]
  stored,         \* user id -> the refreshToken field of that User document
  sess,           \* observer of the refresh tokens issued and of the logouts
  list,           \* the last list query and the response to it
  wire,           \* the last response as sent: HTTP status and JSON body
  users,          \* User documents [id, username, email]
  boot            \* the start-up script: its position and what it has done

\* The User collection and the start-up script.
rest == <<users, boot>>

\* The collections and observers of the user, playlist and list handlers.
extra == <<videoDoc, playlists, stored, sess, list, users, boot>>

vars == <<videos, comments, tweets, likes, subscriptions, reqs, clock, budget, resp,
          gone, odd, iso, videoDoc, playlists, stored, sess, list, wire,
          users, boot>>

\* The collections and observers of the like, subscription, comment, tweet
\* and video handlers.
core == <<videos, comments, tweets, likes, subscriptions, reqs, clock, budget,
          resp, gone, odd, iso>>

Slots == 1..MaxInflight

Idle ==
  [op |-> "idle", actor |-> NoUser, target |-> Null, content |-> <<>>,
   pc |-> "idle", existing |-> Null, pend |-> "none", newId |-> Null,
   stamp |-> 0, bodyOk |-> TRUE, wrote |-> FALSE, owner |-> Null,
   video |-> Null]

NoResp ==
  [op |-> "none", actor |-> NoUser, target |-> Null, status |-> 0,
   liked |-> FALSE, wrote |-> FALSE, fault |-> FALSE, pend |-> "none",
   bodyOk |-> TRUE, owner |-> Null]

IsoIdle ==
  [phase |-> 0, op |-> "none", actor |-> NoUser, target |-> Null,
   tgtOk |-> FALSE, c0 |-> 0,
   st1 |-> 0, liked1 |-> FALSE, c1 |-> 0, fault1 |-> FALSE,
   st2 |-> 0, liked2 |-> FALSE, c2 |-> 0, fault2 |-> FALSE]

(* ------------------------------ helpers -------------------------------- *)
Busy(s) == reqs[s] # Idle
NoneBusy == \A s \in Slots : ~Busy(s)
\* A new request is parked in the lowest free slot.
FreeSlot(s) == ~Busy(s) /\ \A t \in Slots : t < s => Busy(t)

\* The Like and Subscription schemas declare no unique index on the key of a
\* row, so the storage layer refuses no insert: the toggles rely on their
\* read-then-write alone.
LikeSchemaUniqueKey == FALSE
SubscriptionSchemaUniqueKey == FALSE

\* The Like document toggleXLike creates: only the field of its kind is set.
LikeDoc(op, n, target, user) ==
  [n |-> n,
   video |-> IF op = "toggleVideoLike" THEN target ELSE Null,
   comment |-> IF op = "toggleCommentLike" THEN target ELSE Null,
   tweet |-> IF op = "toggleTweetLike" THEN target ELSE Null,
   likedBy |-> user]

\* Like.findOne({<kind>: target, likedBy: user}) over the collection L.
LikeMatch(L, op, target, user) ==
  { l \in L : /\ l.likedBy = user
              /\ \/ op = "toggleVideoLike" /\ l.video = target
                 \/ op = "toggleCommentLike" /\ l.comment = target
                 \/ op = "toggleTweetLike" /\ l.tweet = target }

\* Subscription.findOne({subscriber, channel}) over the collection S.
SubMatch(S, channel, user) ==
  { x \in S : x.subscriber = user /\ x.channel = channel }

\* The relation rows of a toggle's key (actor, target).
Rows(L, S, op, actor, target) ==
  IF op \in LikeOps THEN LikeMatch(L, op, target, actor)
  ELSE SubMatch(S, target, actor)
Count(L, S, op, actor, target) == Cardinality(Rows(L, S, op, actor, target))

\* Video.exists / Comment.exists / Tweet.exists / User.findById.
TargetExists(op, target) ==
  CASE op = "toggleVideoLike" -> target \in videos
    [] op = "toggleCommentLike" -> \E c \in comments : c.id = target
    [] op = "toggleTweetLike" -> \E t \in tweets : t.id = target
    [] OTHER -> target \in UserIds

\* The requests in flight on the key (op, actor, target).
InFlightOn(op, actor, target) ==
  { s \in Slots : reqs[s].op = op /\ reqs[s].actor = actor
                  /\ reqs[s].target = target }

(* ------------------- the observers of the responses -------------------- *)
\* A request arrives: it opens or continues a back-to-back pair of toggles
\* when nothing else is in flight, and spoils the pair otherwise.
IsoOnIssue(op, actor, target) ==
  IF ~NoneBusy \/ op \notin ToggleOps THEN IsoIdle
  ELSE IF iso.phase = 2 /\ iso.op = op /\ iso.actor = actor
          /\ iso.target = target
    THEN [iso EXCEPT !.phase = 3]
  ELSE [IsoIdle EXCEPT !.phase = 1, !.op = op, !.actor = actor,
                       !.target = target,
                       !.tgtOk = TargetExists(op, target),
                       !.c0 = Count(likes, subscriptions, op, actor, target)]

\* A response leaves; cnt is the number of rows of the key after it.
IsoOnReply(now, status, liked, fault, cnt) ==
  IF now.phase = 1
    THEN [now EXCEPT !.phase = 2, !.st1 = status, !.liked1 = liked,
                     !.c1 = cnt, !.fault1 = fault]
  ELSE IF now.phase = 3
    THEN [now EXCEPT !.phase = 4, !.st2 = status, !.liked2 = liked,
                     !.c2 = cnt, !.fault2 = fault]
  ELSE IsoIdle

\* The status of the response to an error that is not an ApiError.
InternalError == 500

\* new ApiResponse(a, b, c): the class is in utils/ApiResponse.js; its
\* parameters are (statusCode, data, message), the order of the calls in the
\* video, user and subscription controllers.
ApiResponse(a, b, c) == [statusCode |-> a, data |-> b, message |-> c]

\* The body the error middleware sends for a thrown error.
ErrorEnvelope(status) == [statusCode |-> Num(status), message |-> Str]

PlaylistOps ==
  {"createPlaylist", "updatePlaylist", "deletePlaylist", "addVideoToPlaylist",
   "removeVideoFromPlaylist"}
CommentOps == {"addComment", "updateComment", "deleteComment"}
TweetOps == {"createTweet", "updateTweet", "deleteTweet"}

\* The object the handler op passes to res.json with the given status;
\* deleteComment calls ApiResponse with two arguments.
BodyOf(op, status) ==
  IF op \in PlaylistOps
    THEN IF status = InternalError THEN ErrorEnvelope(status)
         ELSE IF status >= 400 \/ op = "deletePlaylist" THEN [message |-> Str]
         ELSE [message |-> Str, playlist |-> Obj]
  ELSE IF status >= 400 THEN ErrorEnvelope(status)
  ELSE IF op = "deleteComment" THEN ApiResponse(Bool, Str, Undefined)
  ELSE IF op \in LikeOps \cup CommentOps THEN ApiResponse(Bool, Str, Obj)
  ELSE IF op \in TweetOps THEN ApiResponse(Obj, Undefined, Undefined)
  ELSE ApiResponse(Num(status), Obj, Str)

\* res.status(status).json(body): JSON.stringify leaves out the properties
\* whose value is undefined.
Sent(op, status) ==
  LET body == BodyOf(op, status) IN
  [op |-> op, http |-> status,
   fields |-> { f \in DOMAIN body : body[f] # Undefined },
   statusCode |-> IF "statusCode" \in DOMAIN body THEN body.statusCode
                  ELSE Undefined]

\* res.status(status).json(...) for the request q, or the error handler's
\* response; L and S are the collections as the response leaves them, and
\* sent is the response as it goes out.
ReplyWith(q, now, status, liked, fault, L, S, sent) ==
  /\ wire' = sent
  /\ resp' = [op |-> q.op, actor |-> q.actor, target |-> q.target,
              status |-> status, liked |-> liked, wrote |-> q.wrote,
              fault |-> fault, pend |-> q.pend, bodyOk |-> q.bodyOk,
              owner |-> q.owner]
  /\ odd' = IF /\ q.op \in ToggleOps \cup {"togglePublishStatus"}
                /\ status \in {200, 201}
              THEN (odd \ {ToggleKey(q)}) \cup ({ToggleKey(q)} \ odd)
              ELSE odd
  /\ iso' = IsoOnReply(now, status, liked, fault,
                       Count(L, S, q.op, q.actor, q.target))

Reply(q, now, status, liked, fault, L, S) ==
  ReplyWith(q, now, status, liked, fault, L, S, Sent(q.op, status))

\* The request record of a handler that has just been entered.
NewReq(op, actor, target, content) ==
  [Idle EXCEPT !.op = op, !.actor = actor, !.target = target,
               !.content = content, !.pc = "start"]

\* Some collection differs across the step being taken.
Changed ==
  \/ likes' # likes \/ subscriptions' # subscriptions
  \/ comments' # comments \/ tweets' # tweets \/ videos' # videos
  \/ videoDoc' # videoDoc \/ playlists' # playlists \/ stored' # stored

\* The handler in slot s suspends again as q.
ParkCore(s, q) ==
  /\ reqs' = [reqs EXCEPT ![s] = [q EXCEPT !.wrote = q.wrote \/ Changed]]
  /\ resp' = NoResp
  /\ wire' = NoWire
  /\ UNCHANGED <<budget, odd, iso>>

\* The handler in slot s ends with a response.
FinishCore(s, status, liked, fault) ==
  /\ reqs' = [reqs EXCEPT ![s] = Idle]
  /\ UNCHANGED budget
  /\ Reply([reqs[s] EXCEPT !.wrote = reqs[s].wrote \/ Changed], iso, status,
           liked, fault, likes', subscriptions')

\* A request arrives and its handler responds without ever suspending.
ImmediateCore(q, status) ==
  /\ budget > 0
  /\ budget' = budget - 1
  /\ UNCHANGED reqs
  /\ Reply([q EXCEPT !.wrote = Changed],
           IsoOnIssue(q.op, q.actor, q.target), status, FALSE, FALSE,
           likes', subscriptions')

\* A request arrives and its handler suspends at an await as q.
SuspendCore(q) ==
  /\ budget > 0
  /\ budget' = budget - 1
  /\ \E s \in Slots : FreeSlot(s) /\ reqs' = [reqs EXCEPT ![s] = q]
  /\ iso' = IsoOnIssue(q.op, q.actor, q.target)
  /\ resp' = NoResp
  /\ wire' = NoWire
  /\ UNCHANGED odd

\* The same four steps for the handlers that touch none of the collections
\* of the user, playlist and list handlers.
Park(s, q) == UNCHANGED extra /\ ParkCore(s, q)
Finish(s, status, liked, fault) ==
  UNCHANGED extra /\ FinishCore(s, status, liked, fault)
Immediate(q, status) == UNCHANGED extra /\ ImmediateCore(q, status)
Suspend(q) == UNCHANGED extra /\ SuspendCore(q)

(* ------------------------- like.controller.js -------------------------- *)
\* A like toggle that does not look its target up.
LikeBeginNoExistsCheck(op, actor, target) ==
  LET q == NewReq(op, actor, target, <<>>) IN
  /\ UNCHANGED <<videos, comments, tweets, likes, subscriptions, clock, gone>>
  /\ IF actor = NoUser THEN Immediate(q, 401)
     ELSE IF ~isValidObjectId(target) THEN Immediate(q, 400)
     ELSE Suspend([q EXCEPT !.pc = "findOne"])

\* getUserIdFromReq, the id check and <Target>.exists of a like toggle.
LikeBegin(op, actor, target) ==
  LET q == NewReq(op, actor, target, <<>>) IN
  /\ UNCHANGED <<videos, comments, tweets, likes, subscriptions, clock, gone>>
  /\ IF actor = NoUser THEN Immediate(q, 401)
     ELSE IF ~isValidObjectId(target) THEN Immediate(q, 400)
     ELSE IF ~TargetExists(op, target) THEN Immediate(q, 404)
     ELSE Suspend([q EXCEPT !.pc = "findOne"])

\* startSession, startTransaction and Like.findOne(...).session(session).
LikeFindOne(s) ==
  LET q == reqs[s]
      m == LikeMatch(likes, q.op, q.target, q.actor) IN
  /\ q.pc = "findOne"
  /\ UNCHANGED <<videos, comments, tweets, likes, subscriptions, clock, gone>>
  /\ \/ Finish(s, InternalError, FALSE, TRUE)
     \/ /\ m = {}
        /\ Park(s, [q EXCEPT !.pc = "create"])
     \/ \E l \in m : Park(s, [q EXCEPT !.pc = "deleteOne", !.existing = l.n])

\* The document the transaction wants to delete was deleted by a transaction
\* that committed after this one read it, or is being deleted by one that is
\* still open: the server answers WriteConflict.
WriteConflict(s) ==
  LET q == reqs[s] IN
  \/ ~\E l \in LikeMatch(likes, q.op, q.target, q.actor) : l.n = q.existing
  \/ \E t \in InFlightOn(q.op, q.actor, q.target) :
       t # s /\ reqs[t].pend = "delete" /\ reqs[t].existing = q.existing

\* Like.deleteOne({_id: existing._id}).session(session).
LikeDeleteOne(s) ==
  LET q == reqs[s] IN
  /\ q.pc = "deleteOne"
  /\ UNCHANGED <<videos, comments, tweets, likes, subscriptions, clock, gone>>
  /\ \/ Finish(s, InternalError, FALSE, TRUE)
     \/ /\ WriteConflict(s)
        /\ Finish(s, InternalError, FALSE, FALSE)
     \/ /\ ~WriteConflict(s)
        /\ Park(s, [q EXCEPT !.pc = "commit", !.pend = "delete"])

\* The _id of a new relation row of the key of q: one no row of the key and
\* no handler working on the key holds.
FreshId(q, rows) ==
  LET used == { r.n : r \in rows }
              \cup { reqs[t].existing : t \in InFlightOn(q.op, q.actor, q.target) }
              \cup { reqs[t].newId : t \in InFlightOn(q.op, q.actor, q.target) }
  IN CHOOSE n \in 1..(Cardinality(used) + 1) :
       n \notin used /\ \A k \in 1..(n - 1) : k \in used

\* A create that forgets {session}: the insert is visible at once and no abort
\* takes it back.
LikeCreateNoSession(s) ==
  LET q == reqs[s] IN
  /\ q.pc = "create"
  /\ UNCHANGED <<videos, comments, tweets, subscriptions, clock, gone>>
  /\ likes' = likes \cup
       {LikeDoc(q.op, FreshId(q, LikeMatch(likes, q.op, q.target, q.actor)),
                q.target, q.actor)}
  /\ Park(s, [q EXCEPT !.pc = "commit", !.pend = "insert",
                       !.newId = FreshId(q, LikeMatch(likes, q.op, q.target, q.actor))])

\* Like.create([{<kind>: target, likedBy: userId}], {session}): the insert
\* stays inside the transaction until it commits.
LikeCreate(s) ==
  LET q == reqs[s] IN
  /\ q.pc = "create"
  /\ UNCHANGED <<videos, comments, tweets, likes, subscriptions, clock, gone>>
  /\ \/ Finish(s, InternalError, FALSE, TRUE)
     \/ Park(s, [q EXCEPT !.pc = "commit", !.pend = "insert",
                          !.newId = FreshId(q, LikeMatch(likes, q.op, q.target, q.actor))])

\* A toggle whose unlike branch answers without having deleted the row.
LikeCommitKeepsRow(s) ==
  LET q == reqs[s] IN
  /\ q.pc = "commit"
  /\ UNCHANGED <<videos, comments, tweets, subscriptions, clock, gone>>
  /\ \/ /\ UNCHANGED likes
        /\ Finish(s, InternalError, FALSE, TRUE)
     \/ /\ q.pend = "delete"
        /\ UNCHANGED likes
        /\ Finish(s, 200, FALSE, FALSE)
     \/ /\ q.pend = "insert"
        /\ likes' = likes \cup {LikeDoc(q.op, q.newId, q.target, q.actor)}
        /\ Finish(s, 201, TRUE, FALSE)

\* session.commitTransaction() and the response that follows it; a failed
\* commit goes to the catch block, whose abortTransaction drops the writes.
LikeCommit(s) ==
  LET q == reqs[s] IN
  /\ q.pc = "commit"
  /\ UNCHANGED <<videos, comments, tweets, subscriptions, clock, gone>>
  /\ \/ /\ UNCHANGED likes
        /\ Finish(s, InternalError, FALSE, TRUE)
     \/ /\ q.pend = "delete"
        /\ likes' = likes \ { l \in LikeMatch(likes, q.op, q.target, q.actor) :
                                l.n = q.existing }
        /\ Finish(s, 200, FALSE, FALSE)
     \/ /\ q.pend = "insert"
        /\ IF LikeSchemaUniqueKey
              /\ LikeMatch(likes, q.op, q.target, q.actor) # {}
             THEN /\ UNCHANGED likes
                  /\ Finish(s, InternalError, FALSE, FALSE)
             ELSE /\ likes' = likes \cup
                       {LikeDoc(q.op, q.newId, q.target, q.actor)}
                  /\ Finish(s, 201, TRUE, FALSE)

LikeSteps(op) ==
  \E s \in Slots :
    /\ reqs[s].op = op
    /\ (LikeFindOne(s) \/ LikeDeleteOne(s) \/ LikeCreate(s) \/ LikeCommit(s))

\* req.user of a like request: a user, or nobody.
LikeActors == {1, NoUser}

toggleVideoLike ==
  \/ \E a \in LikeActors, v \in VideoParams : LikeBegin("toggleVideoLike", a, v)
  \/ LikeSteps("toggleVideoLike")

toggleCommentLike ==
  \/ \E a \in LikeActors, c \in CommentParams : LikeBegin("toggleCommentLike", a, c)
  \/ LikeSteps("toggleCommentLike")

toggleTweetLike ==
  \/ \E a \in LikeActors, t \in TweetParams : LikeBegin("toggleTweetLike", a, t)
  \/ LikeSteps("toggleTweetLike")

(* --------------------- subscription.controller.js ---------------------- *)
\* req.params.channelId is a string.  An ObjectId has one spelling in
\* lower-case hex, the one ObjectId.toString() gives, and one in upper-case
\* hex (the ids of the users hold a hex letter); isValidObjectId accepts
\* both and a query casts both to the same ObjectId.
Spellings == {"lower", "upper"}
toString(id) == [id |-> id, hex |-> "lower"]
CastObjectId(str) == str.id

\* The id check, the self-subscription check channelId ===
\* req.user._id.toString() on the string as sent, and
\* User.findById(channelId).
SubBegin(actor, channelId) ==
  LET channel == CastObjectId(channelId)
      q == NewReq("toggleSubscription", actor, channel, <<>>) IN
  /\ UNCHANGED <<videos, comments, tweets, likes, subscriptions, clock, gone>>
  /\ IF ~isValidObjectId(channel) THEN Immediate(q, 400)
     ELSE IF channelId = toString(actor) THEN Immediate(q, 400)
     ELSE IF channel \notin UserIds THEN Immediate(q, 404)
     ELSE Suspend([q EXCEPT !.pc = "findOne"])

\* Subscription.findOne({subscriber: req.user._id, channel: channelId}).
SubFindOne(s) ==
  LET q == reqs[s]
      m == SubMatch(subscriptions, q.target, q.actor) IN
  /\ q.pc = "findOne"
  /\ UNCHANGED <<videos, comments, tweets, likes, subscriptions, clock, gone>>
  /\ \/ /\ m = {}
        /\ Park(s, [q EXCEPT !.pc = "create"])
     \/ \E x \in m : Park(s, [q EXCEPT !.pc = "deleteOne", !.existing = x.n])

\* existingSubscription.deleteOne() and the 200 response: the document is
\* removed if it is still there, and nothing is reported if it is not.
SubDeleteOne(s) ==
  LET q == reqs[s] IN
  /\ q.pc = "deleteOne"
  /\ UNCHANGED <<videos, comments, tweets, likes, clock, gone>>
  /\ subscriptions' =
       subscriptions \ { x \in SubMatch(subscriptions, q.target, q.actor) :
                           x.n = q.existing }
  /\ Finish(s, 200, FALSE, FALSE)

\* Subscription.create({subscriber, channel}) and the 201 response.
SubCreate(s) ==
  LET q == reqs[s] IN
  /\ q.pc = "create"
  /\ UNCHANGED <<videos, comments, tweets, likes, clock, gone>>
  /\ IF SubscriptionSchemaUniqueKey
        /\ SubMatch(subscriptions, q.target, q.actor) # {}
       THEN /\ UNCHANGED subscriptions
            /\ Finish(s, InternalError, FALSE, FALSE)
       ELSE /\ subscriptions' = subscriptions \cup
                 { [n |-> FreshId(q, SubMatch(subscriptions, q.target, q.actor)),
                    subscriber |-> q.actor, channel |-> q.target] }
            /\ Finish(s, 201, TRUE, FALSE)

\* req.user of a subscription request: verifyJWT lets only users through.
SubActors == {1}

toggleSubscription ==
  \/ \E a \in SubActors, c \in ChannelParams, hex \in Spellings :
       SubBegin(a, [id |-> c, hex |-> hex])
  \/ \E s \in Slots :
       /\ reqs[s].op = "toggleSubscription"
       /\ (SubFindOne(s) \/ SubDeleteOne(s) \/ SubCreate(s))

(* ------------------------- video.controller.js ------------------------- *)
\* deleteVideo: the id check and Video.findByIdAndDelete(videoId).  No Like
\* row of the video is touched.
\* req.user of a deleteVideo request; the handler does not read it, so a
\* user who does not own the video stands for every user.
DeleteVideoActors == {2}

deleteVideo ==
  \E actor \in DeleteVideoActors, v \in VideoParams :
    LET q0 == NewReq("deleteVideo", actor, v, <<>>)
        q == IF v \in videos THEN [q0 EXCEPT !.owner = videoDoc[v].owner]
             ELSE q0
    IN
    /\ UNCHANGED <<comments, tweets, likes, subscriptions, clock>>
    /\ UNCHANGED <<playlists, stored, sess, list, rest>>
    /\ IF ~isValidObjectId(v)
         THEN UNCHANGED <<videos, videoDoc, gone>> /\ ImmediateCore(q, 400)
       ELSE IF v \notin videos
         THEN UNCHANGED <<videos, videoDoc, gone>> /\ ImmediateCore(q, 404)
       ELSE /\ videos' = videos \ {v}
            /\ videoDoc' = [x \in videos \ {v} |-> videoDoc[x]]
            /\ gone' = gone \cup {<<"video", v>>}
            /\ ImmediateCore(q, 200)

\* req.body of updateVideo: a title and a description, a title, neither.
VideoBodies ==
  { [title |-> "t1", description |-> "d1"],
    [title |-> "t2", description |-> ""],
    [title |-> "", description |-> ""] }

\* updateData: a field of the body is taken when it is truthy.
UpdateData(doc, body) ==
  [doc EXCEPT !.title = IF body.title # "" THEN body.title ELSE @,
              !.description =
                IF body.description # "" THEN body.description ELSE @]

\* req.user of a video request.
VideoActors == {1, 2, 3}

\* updateVideo without a file: the id check, Video.findByIdAndUpdate and
\* the 200.  req.user is not read.
updateVideo ==
  \E actor \in VideoActors, v \in VideoParams, body \in VideoBodies :
    LET q0 == NewReq("updateVideo", actor, v, <<>>)
        q == IF v \in videos THEN [q0 EXCEPT !.owner = videoDoc[v].owner]
             ELSE q0
    IN
    /\ UNCHANGED <<videos, comments, tweets, likes, subscriptions, clock, gone>>
    /\ UNCHANGED <<playlists, stored, sess, list, rest>>
    /\ IF ~isValidObjectId(v) THEN UNCHANGED videoDoc /\ ImmediateCore(q, 400)
       ELSE IF v \notin videos THEN UNCHANGED videoDoc /\ ImmediateCore(q, 404)
       ELSE /\ videoDoc' = [videoDoc EXCEPT ![v] = UpdateData(@, body)]
            /\ ImmediateCore(q, 200)

\* The _id of the next Video document.
NewVideoId ==
  LET ids == InitVideos \cup videos
             \cup { g[2] : g \in { h \in gone : h[1] = "video" } }
      top == CHOOSE m \in ids : \A i \in ids : i <= m
  IN top + 1

\* publishAVideo up to the first uploadOnCloudinary: the checks of the body
\* and of req.files.
PublishBegin(actor, body, files) ==
  LET q == [NewReq("publishAVideo", actor, Null, <<>>)
              EXCEPT !.bodyOk = body.title # "" /\ body.description # ""]
  IN
  /\ UNCHANGED <<videos, comments, tweets, likes, subscriptions, clock, gone>>
  /\ IF body.title = "" \/ body.description = "" THEN Immediate(q, 400)
     ELSE IF ~files THEN Immediate(q, 400)
     ELSE Suspend([q EXCEPT !.pc = "uploadVideo",
                            !.content = <<body.title, body.description>>])

\* uploadOnCloudinary(videoFilePath) resolves with the upload or with null.
PublishUploadVideo(s) ==
  LET q == reqs[s] IN
  /\ q.op = "publishAVideo" /\ q.pc = "uploadVideo"
  /\ UNCHANGED <<videos, comments, tweets, likes, subscriptions, clock, gone>>
  /\ \E uploaded \in {"null", "uploaded"} :
       Park(s, [q EXCEPT !.pc = "uploadThumbnail", !.pend = uploaded])

\* uploadOnCloudinary(thumbnailPath) resolves likewise; the 500 when one of
\* the two is null.
PublishUploadThumbnail(s) ==
  LET q == reqs[s] IN
  /\ q.op = "publishAVideo" /\ q.pc = "uploadThumbnail"
  /\ UNCHANGED <<videos, comments, tweets, likes, subscriptions, clock, gone>>
  /\ \E uploaded \in {"null", "uploaded"} :
       IF q.pend = "null" \/ uploaded = "null"
         THEN Finish(s, InternalError, FALSE, FALSE)
         ELSE Park(s, [q EXCEPT !.pc = "create"])

\* Video.create with owner req.user._id and the 201 response.
PublishCreate(s) ==
  LET q == reqs[s] IN
  /\ q.op = "publishAVideo" /\ q.pc = "create"
  /\ UNCHANGED <<comments, tweets, likes, subscriptions, clock, gone>>
  /\ UNCHANGED <<playlists, stored, sess, list, rest>>
  /\ videos' = videos \cup {NewVideoId}
  /\ videoDoc' = [v \in videos \cup {NewVideoId} |->
                    IF v = NewVideoId
                      THEN [owner |-> q.actor, title |-> q.content[1],
                            description |-> q.content[2]]
                      ELSE videoDoc[v]]
  /\ FinishCore(s, 201, FALSE, FALSE)

publishAVideo ==
  \/ \E actor \in VideoActors, body \in VideoBodies, files \in BOOLEAN :
       PublishBegin(actor, body, files)
  \/ \E s \in Slots :
       PublishUploadVideo(s) \/ PublishUploadThumbnail(s) \/ PublishCreate(s)

\* The paths of videoSchema that the model keeps of a Video document;
\* the schema has no path isPublished.
videoSchema == {"owner", "title", "description"}

\* video.isPublished as JavaScript reads it from a document.
IsPublished(doc) ==
  IF "isPublished" \in DOMAIN doc THEN doc.isPublished ELSE "undefined"
\* !video.isPublished
Negated(flag) == IF flag = "true" THEN "false" ELSE "true"

\* document.save() after an assignment to one path: the path is written
\* when the schema has it, and nothing is written otherwise.
SaveAssigned(doc, path, value) ==
  IF path \in videoSchema
    THEN [f \in DOMAIN doc \cup {path} |-> IF f = path THEN value ELSE doc[f]]
    ELSE doc

\* togglePublishStatus up to video.save(): the id check and Video.findById.
TogglePublishBegin(actor, v) ==
  LET q0 == NewReq("togglePublishStatus", actor, v, <<>>)
      q == IF v \in videos
             THEN [q0 EXCEPT !.owner = videoDoc[v].owner,
                             !.pend = IsPublished(videoDoc[v])]
           ELSE q0
  IN
  /\ UNCHANGED <<videos, comments, tweets, likes, subscriptions, clock, gone>>
  /\ IF ~isValidObjectId(v) THEN Immediate(q, 400)
     ELSE IF v \notin videos THEN Immediate(q, 404)
     ELSE Suspend([q EXCEPT !.pc = "save"])

\* video.isPublished = !video.isPublished, video.save() and the 200.
\* videoSchema has no path isPublished, so the assignment marks nothing
\* modified and save() writes nothing; saving a document that has been
\* deleted meanwhile fails.
TogglePublishSave(s) ==
  LET q == reqs[s] IN
  /\ q.op = "togglePublishStatus" /\ q.pc = "save"
  /\ UNCHANGED <<videos, comments, tweets, likes, subscriptions, clock, gone>>
  /\ UNCHANGED <<playlists, stored, sess, list, rest>>
  /\ IF q.target \in videos
       THEN /\ videoDoc' = [v \in DOMAIN videoDoc |->
                              IF v = q.target
                                THEN SaveAssigned(videoDoc[v], "isPublished",
                                                  Negated(q.pend))
                                ELSE videoDoc[v]]
            /\ FinishCore(s, 200, FALSE, FALSE)
       ELSE /\ UNCHANGED videoDoc
            /\ FinishCore(s, InternalError, FALSE, FALSE)

togglePublishStatus ==
  \/ \E a \in VideoActors, v \in VideoParams : TogglePublishBegin(a, v)
  \/ \E s \in Slots : TogglePublishSave(s)

(* ------------------------- tweet.controller.js ------------------------- *)
\* deleteTweet up to its ownership check: the id checks and Tweet.findById.
DeleteTweetBegin(actor, tid) ==
  LET q0 == NewReq("deleteTweet", actor, tid, <<>>)
      q == IF isValidObjectId(tid) /\ actor # NoUser
              /\ \E t \in tweets : t.id = tid
             THEN [q0 EXCEPT !.owner = (CHOOSE t \in tweets : t.id = tid).owner]
             ELSE q0
  IN
  /\ UNCHANGED <<videos, comments, tweets, likes, subscriptions, clock, gone>>
  /\ IF ~isValidObjectId(tid) THEN Immediate(q, 400)
     ELSE IF actor = NoUser \/ ~isValidObjectId(actor) THEN Immediate(q, 401)
     ELSE IF ~\E t \in tweets : t.id = tid THEN Immediate(q, 404)
     ELSE IF (CHOOSE t \in tweets : t.id = tid).owner # actor
       THEN Immediate(q, 403)
     ELSE Suspend([q EXCEPT !.pc = "deleteOne"])

\* tweet.deleteOne() and the 200 response.
DeleteTweetDeleteOne(s) ==
  LET q == reqs[s] IN
  /\ q.op = "deleteTweet" /\ q.pc = "deleteOne"
  /\ UNCHANGED <<videos, comments, likes, subscriptions, clock>>
  /\ tweets' = { t \in tweets : t.id # q.target }
  /\ gone' = IF tweets' # tweets THEN gone \cup {<<"tweet", q.target>>}
             ELSE gone
  /\ Finish(s, 200, FALSE, FALSE)

\* req.user of a tweet request.
TweetActors == {1, 2, NoUser}

deleteTweet ==
  \/ \E a \in TweetActors, t \in TweetParams : DeleteTweetBegin(a, t)
  \/ \E s \in Slots : DeleteTweetDeleteOne(s)

(* ------------- the comment handlers (subscription.controller.js) ------- *)
\* document.content = value on a document read with the content was: the
\* path is marked modified when the value differs.
Modified(was, value) == IF value # was THEN "content" ELSE "none"

\* String.prototype.trim on the characters of a string.
RECURSIVE TrimStart(_)
TrimStart(cs) ==
  IF cs # <<>> /\ Head(cs) = " " THEN TrimStart(Tail(cs)) ELSE cs
RECURSIVE TrimEnd(_)
TrimEnd(cs) ==
  IF cs # <<>> /\ cs[Len(cs)] = " "
    THEN TrimEnd(SubSeq(cs, 1, Len(cs) - 1)) ELSE cs
Trim(cs) == TrimEnd(TrimStart(cs))

\* !(!content || typeof content !== "string" || !content.trim())
ContentOk(c) == c.str /\ c.chars # <<>> /\ Trim(c.chars) # <<>>

CommentById(cid) == CHOOSE c \in comments : c.id = cid
CommentExists(cid) == \E c \in comments : c.id = cid

\* The id of the next Comment document.
NewCommentId ==
  LET ids == { c.id : c \in InitComments } \cup { c.id : c \in comments }
             \cup { g[2] : g \in { h \in gone : h[1] = "comment" } }
      top == CHOOSE m \in ids : \A i \in ids : i <= m
  IN top + 1

\* A permission check that lets every authenticated user through.
MayModifyAnyUser(comment, actor) == actor \in UserIds

\* isOwner || isAdmin of updateComment and deleteComment.
MayModify(comment, actor) ==
  LET isOwner == comment.owner = actor
      isAdmin == UserDoc(actor).role = "admin" \/ UserDoc(actor).isAdmin = TRUE
  IN isOwner \/ isAdmin

\* req.user of an addComment request.
AddCommentActors == {1, NoUser}

\* addComment: the checks, new Comment(...), comment.save() and the 201.
\* The video the comment names is not looked up.
addComment ==
  \E actor \in AddCommentActors, v \in VideoParams, c \in ContentParams :
    LET q == [NewReq("addComment", actor, v, <<>>) EXCEPT !.bodyOk = ContentOk(c)]
    IN
    /\ UNCHANGED <<videos, tweets, likes, subscriptions, clock, gone>>
    /\ IF ~isValidObjectId(v)
         THEN UNCHANGED comments /\ Immediate(q, 400)
       ELSE IF ~ContentOk(c)
         THEN UNCHANGED comments /\ Immediate(q, 400)
       ELSE IF actor = NoUser
         THEN UNCHANGED comments /\ Immediate(q, InternalError)
       ELSE /\ comments' = comments \cup
                 { [id |-> NewCommentId, content |-> Trim(c.chars),
                    video |-> v, owner |-> actor, updatedAt |-> clock] }
            /\ Immediate(q, 201)

\* updateComment up to comment.save(): the checks, Comment.findById, the
\* permission check and the assignment of content and updatedAt.
UpdateCommentBegin(actor, cid, c) ==
  LET q0 == [NewReq("updateComment", actor, cid, <<>>)
               EXCEPT !.bodyOk = ContentOk(c)]
      q == IF isValidObjectId(cid) /\ ContentOk(c) /\ CommentExists(cid)
             THEN [q0 EXCEPT !.owner = CommentById(cid).owner] ELSE q0
  IN
  /\ UNCHANGED <<videos, comments, tweets, likes, subscriptions, gone>>
  /\ IF ~isValidObjectId(cid) THEN UNCHANGED clock /\ Immediate(q, 400)
     ELSE IF ~ContentOk(c) THEN UNCHANGED clock /\ Immediate(q, 400)
     ELSE IF ~CommentExists(cid) THEN UNCHANGED clock /\ Immediate(q, 404)
     ELSE IF actor = NoUser
       THEN UNCHANGED clock /\ Immediate(q, InternalError)
     ELSE IF ~MayModify(CommentById(cid), actor)
       THEN UNCHANGED clock /\ Immediate(q, 403)
     ELSE /\ clock' = clock + 1
          /\ Suspend([q EXCEPT !.pc = "save", !.content = Trim(c.chars),
                               !.stamp = clock,
                               !.pend = Modified(CommentById(cid).content,
                                                 Trim(c.chars))])

\* comment.save() writes updatedAt, and the content when the assignment
\* modified it, and the 200 response; saving a document that has been
\* deleted meanwhile fails.
UpdateCommentSave(s) ==
  LET q == reqs[s] IN
  /\ q.op = "updateComment" /\ q.pc = "save"
  /\ UNCHANGED <<videos, tweets, likes, subscriptions, clock, gone>>
  /\ IF CommentExists(q.target)
       THEN /\ comments' =
                 { IF c.id = q.target
                     THEN [c EXCEPT
                             !.content = IF q.pend = "content"
                                           THEN q.content ELSE @,
                             !.updatedAt = q.stamp]
                     ELSE c : c \in comments }
            /\ Finish(s, 200, FALSE, FALSE)
       ELSE /\ UNCHANGED comments
            /\ Finish(s, InternalError, FALSE, FALSE)

\* req.user and the body of an update request.
CommentActors == {1, 2, 3, NoUser}

updateComment ==
  \/ \E a \in CommentActors, cid \in CommentParams, c \in ContentParams :
       UpdateCommentBegin(a, cid, c)
  \/ \E s \in Slots : UpdateCommentSave(s)

\* deleteComment up to Comment.deleteOne: the id check, Comment.findById
\* and the permission check.
DeleteCommentBegin(actor, cid) ==
  LET q0 == NewReq("deleteComment", actor, cid, <<>>)
      q == IF isValidObjectId(cid) /\ CommentExists(cid)
             THEN [q0 EXCEPT !.owner = CommentById(cid).owner] ELSE q0
  IN
  /\ UNCHANGED <<videos, comments, tweets, likes, subscriptions, clock, gone>>
  /\ IF ~isValidObjectId(cid) THEN Immediate(q, 400)
     ELSE IF ~CommentExists(cid) THEN Immediate(q, 404)
     ELSE IF actor = NoUser THEN Immediate(q, InternalError)
     ELSE IF ~MayModify(CommentById(cid), actor) THEN Immediate(q, 403)
     ELSE Suspend([q EXCEPT !.pc = "deleteOne"])

\* Comment.deleteOne({_id: commentId}) and the 200 response.
DeleteCommentDeleteOne(s) ==
  LET q == reqs[s] IN
  /\ q.op = "deleteComment" /\ q.pc = "deleteOne"
  /\ UNCHANGED <<videos, tweets, likes, subscriptions, clock>>
  /\ comments' = { c \in comments : c.id # q.target }
  /\ gone' = IF comments' # comments THEN gone \cup {<<"comment", q.target>>}
             ELSE gone
  /\ Finish(s, 200, FALSE, FALSE)

deleteComment ==
  \/ \E a \in CommentActors, cid \in CommentParams : DeleteCommentBegin(a, cid)
  \/ \E s \in Slots : DeleteCommentDeleteOne(s)

(* ---------------- tweet.controller.js: createTweet, updateTweet -------- *)
MAX_TWEET_LENGTH == 280

\* A string of n characters ch.
Repeat(ch, n) == [i \in 1..n |-> ch]

\* req.body of a tweet request: content that needs trimming, blank content,
\* content that is no string, no content property, and content whose trimmed
\* length is MAX_TWEET_LENGTH and MAX_TWEET_LENGTH + 1.
TweetBodies ==
  { [has |-> TRUE, str |-> TRUE, chars |-> <<" ", "b", " ">>],
    [has |-> TRUE, str |-> TRUE, chars |-> <<" ">>],
    [has |-> TRUE, str |-> FALSE, chars |-> <<>>],
    [has |-> FALSE, str |-> FALSE, chars |-> <<>>],
    [has |-> TRUE, str |-> TRUE,
     chars |-> <<" ">> \o Repeat("c", MAX_TWEET_LENGTH)],
    [has |-> TRUE, str |-> TRUE,
     chars |-> Repeat("c", MAX_TWEET_LENGTH + 1) \o <<" ">>] }

\* typeof req.body.content === "string" ? req.body.content.trim() : ""
RawContent(body) ==
  IF body.has /\ body.str THEN Trim(body.chars) ELSE <<>>

\* A content check without the length limit.
TweetContentOkAnyLength(body) == RawContent(body) # <<>>

\* The content passes both checks: not empty, at most MAX_TWEET_LENGTH.
TweetContentOk(body) ==
  RawContent(body) # <<>> /\ Len(RawContent(body)) <= MAX_TWEET_LENGTH

TweetById(tid) == CHOOSE t \in tweets : t.id = tid
TweetExists(tid) == \E t \in tweets : t.id = tid

\* The id of the next Tweet document.
NewTweetId ==
  LET ids == { t.id : t \in InitTweets } \cup { t.id : t \in tweets }
             \cup { g[2] : g \in { h \in gone : h[1] = "tweet" } }
      top == CHOOSE m \in ids : \A i \in ids : i <= m
  IN top + 1

\* req.user of a createTweet request.
CreateTweetActors == {1, NoUser}

\* createTweet up to Tweet.create: the checks before the first await, then
\* User.exists and the 404.
CreateTweetBegin(actor, body) ==
  LET q == [NewReq("createTweet", actor, Null, <<>>)
              EXCEPT !.bodyOk = TweetContentOk(body)] IN
  /\ UNCHANGED <<videos, comments, tweets, likes, subscriptions, clock, gone>>
  /\ IF actor = NoUser \/ ~isValidObjectId(actor) THEN Immediate(q, 401)
     ELSE IF ~TweetContentOk(body) THEN Immediate(q, 400)
     ELSE IF actor \notin UserIds THEN Immediate(q, 404)
     ELSE Suspend([q EXCEPT !.pc = "create", !.content = RawContent(body)])

\* Tweet.create and the 201 response.
CreateTweetCreate(s) ==
  LET q == reqs[s] IN
  /\ q.op = "createTweet" /\ q.pc = "create"
  /\ UNCHANGED <<videos, comments, likes, subscriptions, clock, gone>>
  /\ tweets' = tweets \cup
       { [id |-> NewTweetId, owner |-> q.actor, content |-> q.content] }
  /\ Finish(s, 201, FALSE, FALSE)

createTweet ==
  \/ \E actor \in CreateTweetActors, body \in TweetBodies :
       CreateTweetBegin(actor, body)
  \/ \E s \in Slots : CreateTweetCreate(s)

\* updateTweet up to tweet.save(): the id checks, Tweet.findById, the
\* ownership check (the owner only), the content checks and the assignment.
UpdateTweetBegin(actor, tid, body) ==
  LET q0 == [NewReq("updateTweet", actor, tid, <<>>)
               EXCEPT !.bodyOk = TweetContentOk(body)]
      q == IF isValidObjectId(tid) /\ actor # NoUser /\ TweetExists(tid)
             THEN [q0 EXCEPT !.owner = TweetById(tid).owner] ELSE q0
  IN
  /\ UNCHANGED <<videos, comments, tweets, likes, subscriptions, clock, gone>>
  /\ IF ~isValidObjectId(tid) THEN Immediate(q, 400)
     ELSE IF actor = NoUser \/ ~isValidObjectId(actor) THEN Immediate(q, 401)
     ELSE IF ~TweetExists(tid) THEN Immediate(q, 404)
     ELSE IF TweetById(tid).owner # actor THEN Immediate(q, 403)
     ELSE IF ~body.has THEN Immediate(q, 400)
     ELSE IF ~TweetContentOk(body) THEN Immediate(q, 400)
     ELSE Suspend([q EXCEPT !.pc = "save", !.content = RawContent(body),
                            !.pend = Modified(TweetById(tid).content,
                                              RawContent(body))])

\* tweet.save() writes the content when the assignment modified it, and
\* the 200 response; saving a document that has been deleted meanwhile
\* fails.
UpdateTweetSave(s) ==
  LET q == reqs[s] IN
  /\ q.op = "updateTweet" /\ q.pc = "save"
  /\ UNCHANGED <<videos, comments, likes, subscriptions, clock, gone>>
  /\ IF TweetExists(q.target)
       THEN /\ tweets' = { IF t.id = q.target
                                  /\ q.pend = "content"
                             THEN [t EXCEPT !.content = q.content] ELSE t
                           : t \in tweets }
            /\ Finish(s, 200, FALSE, FALSE)
       ELSE /\ UNCHANGED tweets
            /\ Finish(s, InternalError, FALSE, FALSE)

\* req.user of an updateTweet request.
UpdateTweetActors == {1, 2, 3, NoUser}

updateTweet ==
  \/ \E a \in UpdateTweetActors, t \in TweetParams, body \in TweetBodies :
       UpdateTweetBegin(a, t, body)
  \/ \E s \in Slots : UpdateTweetSave(s)

(* ------------------------ playlist.controller.js ----------------------- *)
PlaylistById(pid) == CHOOSE p \in playlists : p.id = pid
PlaylistExists(pid) == \E p \in playlists : p.id = pid

\* The id of the next Playlist document.
NewPlaylistId ==
  LET ids == { p.id : p \in InitPlaylists } \cup { p.id : p \in playlists }
             \cup { g[2] : g \in { h \in gone : h[1] = "playlist" } }
      top == CHOOSE m \in ids : \A i \in ids : i <= m
  IN top + 1

\* isOwner || isAdmin of the playlist handlers.
PlaylistMayModify(playlist, actor) ==
  LET isOwner == playlist.owner # Null /\ playlist.owner = actor
      isAdmin == UserDoc(actor).role = "admin"
  IN isOwner \/ isAdmin

\* req.body of createPlaylist and updatePlaylist: name and description, a
\* name alone, and neither.
PlaylistBodies ==
  { [hasName |-> TRUE, name |-> <<" ", "n">>,
     hasDescription |-> TRUE, description |-> <<"e", " ">>],
    [hasName |-> TRUE, name |-> <<"m", " ">>,
     hasDescription |-> FALSE, description |-> <<>>],
    [hasName |-> FALSE, name |-> <<>>,
     hasDescription |-> FALSE, description |-> <<>>] }

\* req.user of a createPlaylist request.
CreatePlaylistActors == {2, NoUser}

\* createPlaylist: the checks, Playlist.create and the 201.
createPlaylist ==
  \E actor \in CreatePlaylistActors, body \in PlaylistBodies :
    LET ok == body.hasName /\ body.name # <<>>
              /\ body.hasDescription /\ body.description # <<>>
        q == [NewReq("createPlaylist", actor, Null, <<>>) EXCEPT !.bodyOk = ok]
    IN
    /\ UNCHANGED <<videos, comments, tweets, likes, subscriptions, clock, gone>>
    /\ UNCHANGED <<videoDoc, stored, sess, list, rest>>
    /\ IF ~ok THEN UNCHANGED playlists /\ ImmediateCore(q, 400)
       ELSE IF actor = NoUser THEN UNCHANGED playlists /\ ImmediateCore(q, 401)
       ELSE /\ playlists' = playlists \cup
                 { [id |-> NewPlaylistId, name |-> Trim(body.name),
                    description |-> Trim(body.description), owner |-> actor,
                    videos |-> <<>>] }
            /\ ImmediateCore(q, 201)

\* The checks every handler of one playlist begins with: the ids, then
\* Playlist.findById, then the permission check.  req.user.id of a request
\* without req.user throws.
PlaylistGate(q, pid, idsOk, otherwise) ==
  IF ~idsOk THEN ImmediateCore(q, 400)
  ELSE IF ~PlaylistExists(pid) THEN ImmediateCore(q, 404)
  ELSE IF q.actor = NoUser THEN ImmediateCore(q, InternalError)
  ELSE IF ~PlaylistMayModify(PlaylistById(pid), q.actor)
    THEN ImmediateCore(q, 403)
  ELSE otherwise

\* The request q once Playlist.findById has found the playlist.
WithPlaylistOwner(q, pid, idsOk) ==
  IF idsOk /\ PlaylistExists(pid)
    THEN [q EXCEPT !.owner = PlaylistById(pid).owner] ELSE q

\* The paths the assignment marks modified: those the body gives with a
\* value other than the one the document was read with.
ModifiedPaths(p, body) ==
  { f \in {"name", "description"} :
      \/ f = "name" /\ body.hasName /\ Trim(body.name) # p.name
      \/ f = "description" /\ body.hasDescription
           /\ Trim(body.description) # p.description }

\* Object.assign(playlist, updates): the name and the description of the
\* playlist document after the assignment, and its modified paths.
ApplyUpdates(p, body) ==
  << IF body.hasName THEN Trim(body.name) ELSE p.name,
     IF body.hasDescription THEN Trim(body.description) ELSE p.description,
     ModifiedPaths(p, body) >>

\* updatePlaylist up to playlist.save().
UpdatePlaylistBegin(actor, pid, body) ==
  LET hasFields == body.hasName \/ body.hasDescription
      ok == isValidObjectId(pid) /\ hasFields
      q == WithPlaylistOwner(
             [NewReq("updatePlaylist", actor, pid, <<>>)
                EXCEPT !.bodyOk = hasFields], pid, ok)
  IN
  /\ UNCHANGED <<videos, comments, tweets, likes, subscriptions, clock, gone>>
  /\ UNCHANGED <<videoDoc, playlists, stored, sess, list, rest>>
  /\ PlaylistGate(q, pid, ok,
       SuspendCore([q EXCEPT !.pc = "save",
                             !.content =
                               ApplyUpdates(PlaylistById(pid), body)]))

\* playlist.save() writes the modified paths of the handler's copy and no
\* other path, and the 200 response; saving a document that has been
\* deleted meanwhile fails.
UpdatePlaylistSave(s) ==
  LET q == reqs[s] IN
  /\ q.op = "updatePlaylist" /\ q.pc = "save"
  /\ UNCHANGED <<videos, comments, tweets, likes, subscriptions, clock, gone>>
  /\ UNCHANGED <<videoDoc, stored, sess, list, rest>>
  /\ IF PlaylistExists(q.target)
       THEN /\ playlists' =
                 { IF p.id = q.target
                     THEN [p EXCEPT
                             !.name = IF "name" \in q.content[3]
                                        THEN q.content[1] ELSE @,
                             !.description = IF "description" \in q.content[3]
                                               THEN q.content[2] ELSE @]
                     ELSE p : p \in playlists }
            /\ FinishCore(s, 200, FALSE, FALSE)
       ELSE /\ UNCHANGED playlists
            /\ FinishCore(s, InternalError, FALSE, FALSE)

\* req.user of a request on one playlist.
PlaylistActors == {1, 2, 3, NoUser}

updatePlaylist ==
  \/ \E a \in PlaylistActors, pid \in PlaylistParams, body \in PlaylistBodies :
       UpdatePlaylistBegin(a, pid, body)
  \/ \E s \in Slots : UpdatePlaylistSave(s)

\* deletePlaylist up to playlist.remove().
DeletePlaylistBegin(actor, pid) ==
  LET ok == isValidObjectId(pid)
      q == WithPlaylistOwner(NewReq("deletePlaylist", actor, pid, <<>>), pid, ok)
  IN
  /\ UNCHANGED <<videos, comments, tweets, likes, subscriptions, clock, gone>>
  /\ UNCHANGED <<videoDoc, playlists, stored, sess, list, rest>>
  /\ PlaylistGate(q, pid, ok, SuspendCore([q EXCEPT !.pc = "remove"]))

\* playlist.remove() and the 200 response.
DeletePlaylistRemove(s) ==
  LET q == reqs[s] IN
  /\ q.op = "deletePlaylist" /\ q.pc = "remove"
  /\ UNCHANGED <<videos, comments, tweets, likes, subscriptions, clock>>
  /\ UNCHANGED <<videoDoc, stored, sess, list, rest>>
  /\ playlists' = { p \in playlists : p.id # q.target }
  /\ gone' = IF playlists' # playlists
               THEN gone \cup {<<"playlist", q.target>>} ELSE gone
  /\ FinishCore(s, 200, FALSE, FALSE)

deletePlaylist ==
  \/ \E a \in PlaylistActors, pid \in PlaylistParams : DeletePlaylistBegin(a, pid)
  \/ \E s \in Slots : DeletePlaylistRemove(s)

\* An update that appends whether or not the value is there.
Push(vs, v) == Append(vs, v)

\* $addToSet: the value is appended unless the array holds it already.
AddToSet(vs, v) ==
  IF \E i \in 1..Len(vs) : vs[i] = v THEN vs ELSE Append(vs, v)

\* $pull: every occurrence of the value is removed.
Pull(vs, v) == SelectSeq(vs, LAMBDA x : x # v)

\* addVideoToPlaylist up to Video.findById.
AddVideoBegin(actor, pid, vid) ==
  LET ok == isValidObjectId(pid) /\ isValidObjectId(vid)
      q == WithPlaylistOwner(
             [NewReq("addVideoToPlaylist", actor, pid, <<>>)
                EXCEPT !.video = vid], pid, ok)
  IN
  /\ UNCHANGED <<videos, comments, tweets, likes, subscriptions, clock, gone>>
  /\ UNCHANGED <<videoDoc, playlists, stored, sess, list, rest>>
  /\ PlaylistGate(q, pid, ok, SuspendCore([q EXCEPT !.pc = "findVideo"]))

\* Video.findById(videoId) and the 404 when there is no such video.
AddVideoFindVideo(s) ==
  LET q == reqs[s] IN
  /\ q.op = "addVideoToPlaylist" /\ q.pc = "findVideo"
  /\ UNCHANGED <<videos, comments, tweets, likes, subscriptions, clock, gone>>
  /\ UNCHANGED <<videoDoc, playlists, stored, sess, list, rest>>
  /\ IF q.video \in videos
       THEN ParkCore(s, [q EXCEPT !.pc = "addToSet"])
       ELSE FinishCore(s, 404, FALSE, FALSE)

\* Playlist.findByIdAndUpdate(playlistId, {$addToSet: {videos: videoId}})
\* and the 200 response.
AddVideoUpdate(s) ==
  LET q == reqs[s]
      there == PlaylistExists(q.target)
               /\ \E i \in 1..Len(PlaylistById(q.target).videos) :
                    PlaylistById(q.target).videos[i] = q.video
  IN
  /\ q.op = "addVideoToPlaylist" /\ q.pc = "addToSet"
  /\ UNCHANGED <<videos, comments, tweets, likes, subscriptions, clock, gone>>
  /\ UNCHANGED <<videoDoc, stored, sess, list, rest>>
  /\ playlists' = { IF p.id = q.target
                      THEN [p EXCEPT !.videos = AddToSet(@, q.video)] ELSE p
                    : p \in playlists }
  /\ reqs' = [reqs EXCEPT ![s] = Idle]
  /\ UNCHANGED budget
  /\ Reply([q EXCEPT !.wrote = q.wrote \/ Changed,
                     !.pend = IF there THEN "present" ELSE "added"],
           iso, 200, FALSE, FALSE, likes', subscriptions')

\* req.user and the ids of a request on the videos of a playlist.
PlaylistVideoActors == {1, 2}
PlaylistVideoParams == {11, 19}

addVideoToPlaylist ==
  \/ \E a \in PlaylistVideoActors, pid \in PlaylistParams,
        vid \in PlaylistVideoParams : AddVideoBegin(a, pid, vid)
  \/ \E s \in Slots : AddVideoFindVideo(s) \/ AddVideoUpdate(s)

\* removeVideoFromPlaylist up to Playlist.findByIdAndUpdate.
RemoveVideoBegin(actor, pid, vid) ==
  LET ok == isValidObjectId(pid) /\ isValidObjectId(vid)
      q == WithPlaylistOwner(
             [NewReq("removeVideoFromPlaylist", actor, pid, <<>>)
                EXCEPT !.video = vid], pid, ok)
  IN
  /\ UNCHANGED <<videos, comments, tweets, likes, subscriptions, clock, gone>>
  /\ UNCHANGED <<videoDoc, playlists, stored, sess, list, rest>>
  /\ PlaylistGate(q, pid, ok, SuspendCore([q EXCEPT !.pc = "pull"]))

\* Playlist.findByIdAndUpdate(playlistId, {$pull: {videos: videoId}}) and
\* the 200 response.
RemoveVideoUpdate(s) ==
  LET q == reqs[s] IN
  /\ q.op = "removeVideoFromPlaylist" /\ q.pc = "pull"
  /\ UNCHANGED <<videos, comments, tweets, likes, subscriptions, clock, gone>>
  /\ UNCHANGED <<videoDoc, stored, sess, list, rest>>
  /\ playlists' = { IF p.id = q.target
                      THEN [p EXCEPT !.videos = Pull(@, q.video)] ELSE p
                    : p \in playlists }
  /\ FinishCore(s, 200, FALSE, FALSE)

removeVideoFromPlaylist ==
  \/ \E a \in PlaylistVideoActors, pid \in PlaylistParams,
        vid \in PlaylistVideoParams : RemoveVideoBegin(a, pid, vid)
  \/ \E s \in Slots : RemoveVideoUpdate(s)

(* ----------------------- the paginated list handlers ------------------- *)
\* A query parameter that holds an integer: absent, or given with its value.
Absent == [given |-> FALSE, n |-> 0]
Given(k) == [given |-> TRUE, n |-> k]
PageParams == {Absent} \cup { Given(k) : k \in {-1, 0, 1, 2, 3} }
LimitParams == {Absent} \cup { Given(k) : k \in {-1, 0, 1, 5, 100, 101} }

\* A sort parameter: absent, or a string made of an optional "-" and a name.
NoSort == [given |-> FALSE, minus |-> FALSE, name |-> ""]
SortParams ==
  { NoSort,
    [given |-> TRUE, minus |-> FALSE, name |-> "oldest"],
    [given |-> TRUE, minus |-> FALSE, name |-> "newest"],
    [given |-> TRUE, minus |-> FALSE, name |-> "popular"],
    [given |-> TRUE, minus |-> FALSE, name |-> "createdAt"],
    [given |-> TRUE, minus |-> TRUE, name |-> "createdAt"] }
\* req.query.sortType of getAllVideos; "" is the absent parameter.
SortTypes == {"", "asc", "up"}

\* parseInt(x || "d", 10) and Number(x || d) on an integer parameter.
ParseIntOfOr(x, d) == IF x.given THEN x.n ELSE d
\* parseInt(x, 10) || d: NaN and 0 give d.
ParseIntOr(x, d) == IF x.given /\ x.n # 0 THEN x.n ELSE d
Max(a, b) == IF a >= b THEN a ELSE b
Min(a, b) == IF a <= b THEN a ELSE b
\* Math.ceil(a / b) for a >= 0 and b > 0.
Ceil(a, b) == (a + b - 1) \div b
\* x || d on a number.
OrElse(x, d) == IF x = 0 THEN d ELSE x

\* The sort stages.
Newest == [field |-> "createdAt", dir |-> -1]
Oldest == [field |-> "createdAt", dir |-> 1]
\* req.query.sort === "oldest" ? {createdAt: 1} : {createdAt: -1}
OldestOrNewest(sort) ==
  IF sort.given /\ ~sort.minus /\ sort.name = "oldest" THEN Oldest ELSE Newest
\* Query.sort(string): the name is the field, a leading "-" means descending.
SortString(sort) == [field |-> sort.name, dir |-> IF sort.minus THEN -1 ELSE 1]

\* The n matching records are numbered by creation, 1 the oldest.  The key
\* of record i under a sort field: createdAt orders by creation; the other
\* names the requests sort by are fields of no document, so every record
\* has the same, missing, key.
KeyOf(field, i) == IF field = "createdAt" THEN i ELSE Null

\* The records by creation, oldest first or newest first.
ByCreation(n, dir) == [k \in 1..n |-> IF dir = 1 THEN k ELSE n + 1 - k]
\* The orders of n records.
Orders(n) ==
  { s \in [1..n -> 1..n] : \A i, j \in 1..n : i # j => s[i] # s[j] }
\* The orders a sort by the stage may give: the one order of the keys when
\* the keys differ, and any order of the records when the keys are equal,
\* as the database does not say how it orders equal keys.
Sorted(n, stage) ==
  IF \A i, j \in 1..n : i # j => KeyOf(stage.field, i) # KeyOf(stage.field, j)
    THEN { ByCreation(n, stage.dir) }
    ELSE Orders(n)
\* The most records a request is given: fewer when the sort leaves their
\* order open.
MaxRecords(field) == IF field = "createdAt" THEN MaxTotal ELSE MaxTied

\* A skip that leaves out one page too many.
SkipOfNextPage(page, limit) == page * limit

\* const skip = (page - 1) * limit
SkipOf(page, limit) == (page - 1) * limit

\* .skip(k) and .limit(l) of a query.
Skip(seq, k) == IF k >= Len(seq) THEN <<>> ELSE SubSeq(seq, k + 1, Len(seq))
Limit(seq, l) == SubSeq(seq, 1, Min(l, Len(seq)))

\* A list request before its handler runs, and the fields of the response;
\* n is the number of records that match the filter now, counted and found
\* tell which of the two queries have run, and writes counts the writes of
\* other requests to the matching records while the handler was suspended.
NoList ==
  [op |-> "none", who |-> NoUser, page |-> Absent, limit |-> Absent,
   sort |-> NoSort, sortType |-> "", n |-> 0, dead |-> {},
   status |-> 0, effPage |-> 0, effLimit |-> 0, stage |-> Newest,
   metaTotal |-> 0, metaPage |-> 0, metaLimit |-> 0, pages |-> 0,
   rows |-> <<>>, items |-> <<>>, pc |-> "start", counted |-> FALSE,
   found |-> FALSE, writes |-> 0]

\* A list request.
Query(op, who, p, l, srt, t, n, d) ==
  [NoList EXCEPT !.op = op, !.who = who, !.page = p, !.limit = l,
                 !.sort = srt, !.sortType = t, !.n = n, !.dead = d]

\* The likes found may point at a deleted video: the oldest, the newest, the
\* one in the middle.
DeadSets(n) == { {k} : k \in {1, (n + 1) \div 2, n} \cap (1..n) }

\* The user or the video the requests of a list handler are about.
WhoOf(op) == IF op = "getVideoComments" THEN 11 ELSE 1

\* The requests that fail before the query is built.
FailingQueries ==
  { <<"getLikedVideos", NoUser>>, <<"getUserPlaylists", BadId>>,
    <<"getUserTweets", BadId>>, <<"getUserTweets", 9>>,
    <<"getVideoComments", BadId>> }

\* sortBy of getAllVideos: the parameter as sent, "createdAt" without one.
SortByOf(sort) ==
  IF sort.given
    THEN IF sort.minus THEN "-createdAt" ELSE sort.name
    ELSE "createdAt"
\* sort of getLikedVideos: req.query.sort || "-createdAt".
LikedSort(sort) == IF sort.given THEN SortString(sort) ELSE Newest

\* list holds a request to one of the list handlers.
ListQuery ==
  \/ \E p \in PageParams, l \in LimitParams, srt \in SortParams :
       \/ \E t \in SortTypes, n \in 0..MaxRecords(SortByOf(srt)) :
            list = Query("getAllVideos", 1, p, l, srt, t, n, {})
       \/ \E n \in 0..MaxRecords(LikedSort(srt).field) :
            \E d \in { {} } \cup DeadSets(n) :
              list = Query("getLikedVideos", 1, p, l, srt, "", n, d)
       \/ \E op \in {"getUserPlaylists", "getUserTweets", "getVideoComments"},
             n \in 0..MaxTotal :
            list = Query(op, WhoOf(op), p, l, srt, "", n, {})
  \/ \E f \in FailingQueries : list = [NoList EXCEPT !.op = f[1], !.who = f[2]]


\* find(filter).sort(stage).skip(skip).limit(limit) over the records in
\* the order the sort gave them.
Find(sorted, skip, limit) == Limit(Skip(sorted, skip), limit)

\* The handler answers with an error before it queries.
Failed(status) ==
  /\ list.status = 0
  /\ list' = [list EXCEPT !.status = status, !.pc = "done"]
  /\ UNCHANGED <<core, videoDoc, playlists, stored, sess, wire, rest>>

\* The handler has built its query: the page, the limit and the sort stage.
Started(r, page, limit, stage) ==
  [r EXCEPT !.pc = "run", !.effPage = page, !.effLimit = limit,
            !.stage = stage, !.metaPage = page, !.metaLimit = limit]

\* countDocuments(filter) runs: the total, and the pages the meta reports
\* for it.
Counted(r, pages) ==
  [r EXCEPT !.counted = TRUE, !.metaTotal = r.n, !.pages = pages]

\* find(filter).sort(stage).skip(skip).limit(limit) runs on the records
\* in the order sorted: the documents found, and the mapping of them that
\* the response carries.
Found(r, sorted, keep(_)) ==
  LET rows == Find(sorted, SkipOf(r.effPage, r.effLimit), r.effLimit) IN
  [r EXCEPT !.found = TRUE, !.rows = rows, !.items = SelectSeq(rows, keep)]

\* The 200 response once both queries have run.
Answered(r) ==
  IF r.counted /\ r.found THEN [r EXCEPT !.status = 200, !.pc = "done"] ELSE r

\* A step of the handler of the request in list.
Step(r) ==
  /\ list.status = 0
  /\ list' = r
  /\ UNCHANGED <<core, videoDoc, playlists, stored, sess, wire, rest>>

\* The 200 response of a handler whose one query both counts and finds.
Listed(page, limit, stage, pages, keep(_)) ==
  \E sorted \in Sorted(list.n, stage) :
    Step(Answered(Found(Counted(Started(list, page, limit, stage), pages),
                        sorted, keep)))

Always(i) == TRUE

\* Model.aggregatePaginate(aggregate, {page, limit}) of
\* mongoose-aggregate-paginate-v2: a limit that is not positive becomes 10,
\* a page below 1 becomes 1, neither has an upper limit.
AggregatePaginate(page, limit, stage) ==
  LET l == IF limit > 0 THEN limit ELSE 10
      p == IF page >= 1 THEN page ELSE 1
  IN Listed(p, l, stage, OrElse(Ceil(list.n, l), 1), Always)

getAllVideos ==
  /\ list.op = "getAllVideos" /\ list.pc = "start"
  /\ LET page == ParseIntOfOr(list.page, 1)
         limit == ParseIntOfOr(list.limit, 10)
         sortBy == SortByOf(list.sort)
         sortStage == [field |-> sortBy,
                       dir |-> IF list.sortType = "asc" THEN 1 ELSE -1]
     IN AggregatePaginate(page, limit, sortStage)

\* The handlers that count and find with two queries.
TwoQueryOps == {"getLikedVideos", "getUserPlaylists", "getUserTweets"}

\* While a list handler is suspended between its queries, another request
\* inserts a matching record (Like.create of a toggle, Playlist.create,
\* Tweet.create): the new record is the newest.
OtherRequestCreates ==
  /\ list.op \in TwoQueryOps /\ list.pc = "run"
  /\ list.writes < MaxListWrites /\ list.n < MaxRecords(list.stage.field)
  /\ Step([list EXCEPT !.n = @ + 1, !.writes = @ + 1])

\* Another request deletes a matching record (Like.deleteOne of a toggle,
\* playlist.remove, tweet.deleteOne), the oldest or the newest: the records
\* after it move up by one.
OtherRequestDeletes ==
  /\ list.op \in TwoQueryOps /\ list.pc = "run"
  /\ list.writes < MaxListWrites
  /\ \E k \in {1, list.n} \cap (1..list.n) :
       Step([list EXCEPT
               !.n = @ - 1, !.writes = @ + 1,
               !.dead = { IF d > k THEN d - 1 ELSE d : d \in @ \ {k} }])

\* getLikedVideos up to Like.find: the checks and Like.countDocuments.
LikedVideosCount ==
  /\ list.op = "getLikedVideos" /\ list.pc = "start"
  /\ IF list.who = NoUser THEN Failed(401)
     ELSE LET page == Max(1, ParseIntOfOr(list.page, 1))
              limit == Min(100, Max(1, ParseIntOfOr(list.limit, 20)))
              sort == LikedSort(list.sort)
          IN Step(Counted(Started(list, page, limit, sort),
                          OrElse(Ceil(list.n, limit), 1)))

\* Like.find with populate, the videos that are not null, and the 200.
LikedVideosFind ==
  /\ list.op = "getLikedVideos" /\ list.pc = "run"
  /\ LET alive(i) == i \notin list.dead
     IN \E sorted \in Sorted(list.n, list.stage) :
          Step(Answered(Found(list, sorted, alive)))

getLikedVideos ==
  \/ LikedVideosCount
  \/ LikedVideosFind
  \/ list.op = "getLikedVideos" /\ (OtherRequestCreates \/ OtherRequestDeletes)

\* One of the two queries of Promise.all([countDocuments, find]) runs: the
\* one that has not run yet, in either order; the response follows the
\* second.
CountOrFind(r) ==
  \/ ~r.counted
       /\ Step(Answered(Counted(r, Ceil(r.n, r.effLimit))))
  \/ ~r.found
       /\ \E sorted \in Sorted(r.n, r.stage) :
            Step(Answered(Found(r, sorted, Always)))

\* getUserPlaylists up to the first of its two queries.
UserPlaylistsBegin ==
  /\ list.op = "getUserPlaylists" /\ list.pc = "start"
  /\ IF ~isValidObjectId(list.who) THEN Failed(400)
     ELSE LET page == Max(ParseIntOfOr(list.page, 1), 1)
              limit == Min(Max(ParseIntOfOr(list.limit, 10), 1), 100)
              sortBy == OldestOrNewest(list.sort)
          IN CountOrFind(Started(list, page, limit, sortBy))

getUserPlaylists ==
  \/ UserPlaylistsBegin
  \/ list.op = "getUserPlaylists" /\ list.pc = "run" /\ CountOrFind(list)
  \/ list.op = "getUserPlaylists"
       /\ (OtherRequestCreates \/ OtherRequestDeletes)

\* getUserTweets up to Promise.all: the checks and User.exists.
UserTweetsBegin ==
  /\ list.op = "getUserTweets" /\ list.pc = "start"
  /\ IF ~isValidObjectId(list.who) THEN Failed(400)
     ELSE LET page0 == ParseIntOr(list.page, 1)
              limit0 == ParseIntOr(list.limit, 20)
              page == IF page0 < 1 THEN 1 ELSE page0
              limit == Max(1, Min(limit0, 100))
              sortBy == OldestOrNewest(list.sort)
          IN IF list.who \notin UserIds THEN Failed(404)
             ELSE Step(Started(list, page, limit, sortBy))

getUserTweets ==
  \/ UserTweetsBegin
  \/ list.op = "getUserTweets" /\ list.pc = "run" /\ CountOrFind(list)
  \/ list.op = "getUserTweets" /\ (OtherRequestCreates \/ OtherRequestDeletes)

getVideoComments ==
  /\ list.op = "getVideoComments" /\ list.pc = "start"
  /\ LET page == Max(ParseIntOfOr(list.page, 1), 1)
         limit == Min(Max(ParseIntOfOr(list.limit, 10), 1), 100)
         sort == OldestOrNewest(list.sort)
     IN IF ~isValidObjectId(list.who) THEN Failed(400)
        ELSE AggregatePaginate(page, limit, sort)

(* -------------- user.controller.js: what the responses carry ----------- *)
\* The paths of the User document of user u: refreshToken is there while a
\* token is stored.
UserPaths(u) ==
  {"_id", "username", "email", "fullName", "avatar", "coverImage", "password"}
    \cup (IF u \in DOMAIN stored /\ stored[u] # Null
            THEN {"refreshToken"} ELSE {})

\* .select("-a -b"): the document without the excluded paths.
SelectWithout(paths, excluded) == paths \ excluded

\* The response of a user handler: the envelope, and the paths of the User
\* document that its data carries.
SentUser(op, status, paths) ==
  LET sent == Sent(op, status) IN
  [op |-> op, http |-> status, fields |-> sent.fields,
   statusCode |-> sent.statusCode,
   data |-> IF status < 400 THEN paths ELSE {}]

\* A user handler answers on entry, or the one in slot s answers.
ImmediateUser(q, status, paths) ==
  /\ budget > 0
  /\ budget' = budget - 1
  /\ UNCHANGED reqs
  /\ ReplyWith([q EXCEPT !.wrote = Changed],
               IsoOnIssue(q.op, q.actor, q.target), status, FALSE, FALSE,
               likes', subscriptions', SentUser(q.op, status, paths))

FinishUser(s, status, paths) ==
  /\ reqs' = [reqs EXCEPT ![s] = Idle]
  /\ UNCHANGED budget
  /\ ReplyWith([reqs[s] EXCEPT !.wrote = reqs[s].wrote \/ Changed], iso,
               status, FALSE, FALSE, likes', subscriptions',
               SentUser(reqs[s].op, status, paths))

(* ---------- user.controller.js: login, logout, refreshAccessToken ------- *)
\* user.generateRefreshToken(): a token signed for the user's _id; the n-th
\* token signed differs from all before it.
Token(u, n) == 10 * n + u
\* jwt.verify(token, REFRESH_TOKEN_SECRET)._id
DecodedId(t) == t % 10
\* A token jwt.verify rejects.
BadToken == -1

\* The users that log in, and req.body of loginUser: the password is
\* right, the password is wrong, usernameOrEmail is missing.
AuthUsers == {1}
LoginBodies == {"ok", "wrong", "missing"}

\* A request of the user by this handler is in flight.
InFlight(op, u) == \E s \in Slots : reqs[s].op = op /\ reqs[s].actor = u

\* loginUser up to user.save(): the check of the body, User.findOne,
\* isPasswordCorrect and the signing of the tokens.
LoginBegin(u, body) ==
  LET q == NewReq("loginUser", u, Null, <<>>) IN
  /\ UNCHANGED <<videos, comments, tweets, likes, subscriptions, clock, gone>>
  /\ UNCHANGED <<videoDoc, playlists, list, stored, rest>>
  /\ IF body # "ok"
       THEN UNCHANGED sess /\ ImmediateCore(q, 401)
       ELSE /\ sess' = [sess EXCEPT
                 !.minted = @ + 1,
                 !.revoked = { t \in @ : DecodedId(t) # u },
                 !.overlap = IF InFlight("logoutUser", u) THEN @ \cup {u} ELSE @]
            /\ SuspendCore([q EXCEPT !.pc = "save",
                                     !.newId = Token(u, sess.minted + 1)])

\* user.save() of generateAccessTokenAndRefreshToken writes the new token.
TokenSave(s) ==
  LET q == reqs[s] IN
  /\ q.op \in {"loginUser", "refreshAccessToken"} /\ q.pc = "save"
  /\ UNCHANGED <<videos, comments, tweets, likes, subscriptions, clock, gone>>
  /\ UNCHANGED <<videoDoc, playlists, list, sess, rest>>
  /\ stored' = [stored EXCEPT ![q.actor] = q.newId]
  /\ ParkCore(s, [q EXCEPT !.pc = "respond"])

\* The data of the 200 response: loginUser sends safeUser, the copy of
\* user._doc (refreshToken just assigned) with password and refreshToken
\* deleted; refreshAccessToken sends the access token only.
TokenResponseData(q) ==
  IF q.op = "loginUser"
    THEN (UserPaths(q.actor) \cup {"refreshToken"})
           \ {"password", "refreshToken"}
    ELSE {}

\* The 200 response with the cookies: the new refresh token reaches the
\* client. A refresh that succeeds has redeemed the token it presented,
\* again when an earlier refresh had redeemed it already.
TokenRespond(s) ==
  LET q == reqs[s] IN
  /\ q.op \in {"loginUser", "refreshAccessToken"} /\ q.pc = "respond"
  /\ UNCHANGED <<videos, comments, tweets, likes, subscriptions, clock, gone>>
  /\ UNCHANGED <<videoDoc, playlists, list, stored, rest>>
  /\ sess' = [sess EXCEPT
       !.issued = @ \cup {q.newId},
       !.redeemed = IF q.op = "refreshAccessToken" THEN @ \cup {q.target} ELSE @,
       !.again = IF q.op = "refreshAccessToken" /\ q.target \in sess.redeemed
                   THEN @ \cup {q.target} ELSE @]
  /\ FinishUser(s, 200, TokenResponseData(q))

loginUser ==
  \/ \E u \in AuthUsers, body \in LoginBodies : LoginBegin(u, body)
  \/ \E s \in Slots :
       reqs[s].op = "loginUser" /\ (TokenSave(s) \/ TokenRespond(s))

\* logoutUser up to User.findByIdAndUpdate; req.user is set by verifyJWT.
LogoutBegin(u) ==
  /\ UNCHANGED <<videos, comments, tweets, likes, subscriptions, clock, gone>>
  /\ UNCHANGED <<videoDoc, playlists, list, stored, rest>>
  /\ sess' = [sess EXCEPT
       !.overlap = IF InFlight("loginUser", u) THEN @ \cup {u} ELSE @]
  /\ SuspendCore([NewReq("logoutUser", u, Null, <<>>) EXCEPT !.pc = "unset"])

\* User.findByIdAndUpdate(req.user._id, {$unset: {refreshToken: ""}}).
LogoutUnset(s) ==
  LET q == reqs[s] IN
  /\ q.op = "logoutUser" /\ q.pc = "unset"
  /\ UNCHANGED <<videos, comments, tweets, likes, subscriptions, clock, gone>>
  /\ UNCHANGED <<videoDoc, playlists, list, sess, rest>>
  /\ stored' = [stored EXCEPT ![q.actor] = Null]
  /\ ParkCore(s, [q EXCEPT !.pc = "respond"])

\* The 200 response of logoutUser: the logout is complete, and the tokens
\* the user has been sent until now are the ones it should have ended,
\* unless a login of the user ran while the logout did.
LogoutRespond(s) ==
  LET q == reqs[s] IN
  /\ q.op = "logoutUser" /\ q.pc = "respond"
  /\ UNCHANGED <<videos, comments, tweets, likes, subscriptions, clock, gone>>
  /\ UNCHANGED <<videoDoc, playlists, list, stored, rest>>
  /\ sess' = [sess EXCEPT
       !.revoked = IF q.actor \in sess.overlap THEN @
                   ELSE @ \cup { t \in sess.issued : DecodedId(t) = q.actor },
       !.overlap = @ \ {q.actor}]
  /\ FinishCore(s, 200, FALSE, FALSE)

logoutUser ==
  \/ \E u \in AuthUsers : LogoutBegin(u)
  \/ \E s \in Slots : LogoutUnset(s) \/ LogoutRespond(s)

\* refreshAccessToken up to User.findById: the token of the cookie or the
\* body, and jwt.verify.
RefreshBegin(t) ==
  LET q == [NewReq("refreshAccessToken", IF t > 0 THEN DecodedId(t) ELSE NoUser,
                   t, <<>>)
              EXCEPT !.pend = IF t \in sess.revoked THEN "revoked" ELSE "none"]
  IN
  /\ UNCHANGED <<videos, comments, tweets, likes, subscriptions, clock, gone>>
  /\ UNCHANGED <<videoDoc, playlists, list, stored, sess, rest>>
  /\ IF t = Null THEN ImmediateCore(q, 401)
     ELSE IF t = BadToken THEN ImmediateCore(q, 401)
     ELSE SuspendCore([q EXCEPT !.pc = "findById"])

\* User.findById, the comparison of the token with user.refreshToken and
\* the signing of the new tokens.
RefreshFindById(s) ==
  LET q == reqs[s] IN
  /\ q.op = "refreshAccessToken" /\ q.pc = "findById"
  /\ UNCHANGED <<videos, comments, tweets, likes, subscriptions, clock, gone>>
  /\ UNCHANGED <<videoDoc, playlists, list, stored, rest>>
  /\ IF q.actor \notin UserIds \/ q.target # stored[q.actor]
       THEN UNCHANGED sess /\ FinishCore(s, 401, FALSE, FALSE)
       ELSE /\ sess' = [sess EXCEPT !.minted = @ + 1]
            /\ ParkCore(s, [q EXCEPT !.pc = "save",
                                     !.newId = Token(q.actor, sess.minted + 1)])

refreshAccessToken ==
  \/ \E t \in sess.issued \cup {BadToken, Null} : RefreshBegin(t)
  \/ \E s \in Slots :
       \/ RefreshFindById(s)
       \/ reqs[s].op = "refreshAccessToken" /\ (TokenSave(s) \/ TokenRespond(s))

(* -------------------- user.controller.js: registerUser ------------------ *)
\* userSchema is taken to declare no unique key on username or email: none
\* is named for the User entity, so the collection stores a second document
\* with a username or an email it holds already.
UserSchemaUniqueKey == FALSE
\* The status of an insert or update refused by a unique key.
Conflict == 409

\* String.prototype.toLowerCase over the letters the requests use.
LowerChar(c) ==
  CASE c = "A" -> "a"
    [] c = "D" -> "d"
    [] OTHER -> c
ToLowerCase(w) == [i \in 1..Len(w) |-> LowerChar(w[i])]

\* req.body and req.files of registerUser: a username that differs from a
\* stored one in case only, a new username in both cases, a taken username,
\* a taken email, a blank field; req.files with both files, undefined,
\* without any file, and with the avatar alone.
RegisterBodies ==
  { [username |-> <<"A">>, email |-> "e4", files |-> "both"],
    [username |-> <<"d">>, email |-> "e4", files |-> "both"],
    [username |-> <<"D">>, email |-> "e5", files |-> "both"],
    [username |-> <<"a">>, email |-> "e5", files |-> "both"],
    [username |-> <<"d">>, email |-> "e1", files |-> "both"],
    [username |-> <<" ">>, email |-> "e5", files |-> "both"],
    [username |-> <<"d">>, email |-> "e5", files |-> "undefined"],
    [username |-> <<"d">>, email |-> "e5", files |-> "empty"],
    [username |-> <<"d">>, email |-> "e4", files |-> "avatarOnly"] }

\* req.files?.avatar[0]?.path and req.files?.coverImage[0]?.path: reading
\* [0] of a key that req.files does not have throws a TypeError.
FilePathsThrow(files) == files \in {"empty", "avatarOnly"}
\* avatarLocalPath is set.
AvatarPath(files) == files \in {"both", "avatarOnly"}

\* User.exists({$or: [{username}, {email}]})
UserExists(username, email) ==
  \E u \in users : u.username = username \/ u.email = email

\* A unique key would refuse a document with this stored username or email.
DuplicateKey(username, email) ==
  UserSchemaUniqueKey /\ UserExists(username, email)

NewUserId == 4 + Cardinality(users) - Cardinality(InitUsers)

\* registerUser up to User.exists: the check of the fields.
RegisterBegin(body) ==
  LET q == [NewReq("registerUser", NoUser, Null,
                   <<body.username, body.email>>)
              EXCEPT !.bodyOk = (body.files = "both"), !.pend = body.files]
  IN
  /\ UNCHANGED <<videos, comments, tweets, likes, subscriptions, clock, gone>>
  /\ UNCHANGED <<videoDoc, playlists, list, stored, sess, rest>>
  /\ IF Trim(body.username) = <<>> THEN ImmediateCore(q, InternalError)
     ELSE SuspendCore([q EXCEPT !.pc = "exists"])

\* User.exists with the username as sent, then the two file paths and the
\* check of the avatar path.
RegisterExists(s) ==
  LET q == reqs[s] IN
  /\ q.op = "registerUser" /\ q.pc = "exists"
  /\ UNCHANGED <<videos, comments, tweets, likes, subscriptions, clock, gone>>
  /\ UNCHANGED <<videoDoc, playlists, list, stored, sess, rest>>
  /\ IF UserExists(q.content[1], q.content[2])
       THEN FinishCore(s, 400, FALSE, FALSE)
     ELSE IF FilePathsThrow(q.pend)
       THEN FinishCore(s, InternalError, FALSE, FALSE)
     ELSE IF ~AvatarPath(q.pend) THEN FinishCore(s, 401, FALSE, FALSE)
     ELSE ParkCore(s, [q EXCEPT !.pc = "uploadAvatar"])

\* uploadOnCloudinary(avatarLocalPath) resolves with the upload or with null.
RegisterUploadAvatar(s) ==
  LET q == reqs[s] IN
  /\ q.op = "registerUser" /\ q.pc = "uploadAvatar"
  /\ UNCHANGED <<videos, comments, tweets, likes, subscriptions, clock, gone>>
  /\ UNCHANGED <<videoDoc, playlists, list, stored, sess, rest>>
  /\ \E avatar \in {"null", "uploaded"} :
       ParkCore(s, [q EXCEPT !.pc = "uploadCover", !.pend = avatar])

\* uploadOnCloudinary(coverImageLocalPath) resolves, then the check of the
\* avatar; the cover image is optional.
RegisterUploadCover(s) ==
  LET q == reqs[s] IN
  /\ q.op = "registerUser" /\ q.pc = "uploadCover"
  /\ UNCHANGED <<videos, comments, tweets, likes, subscriptions, clock, gone>>
  /\ UNCHANGED <<videoDoc, playlists, list, stored, sess, rest>>
  /\ IF q.pend = "null" THEN FinishCore(s, InternalError, FALSE, FALSE)
     ELSE ParkCore(s, [q EXCEPT !.pc = "create"])

\* The paths of a User document just created.
NewUserPaths ==
  {"_id", "username", "email", "fullName", "avatar", "coverImage", "password"}

\* User.create with username.toLowerCase().
RegisterCreate(s) ==
  LET q == reqs[s]
      username == ToLowerCase(q.content[1])
      email == q.content[2]
  IN
  /\ q.op = "registerUser" /\ q.pc = "create"
  /\ UNCHANGED <<videos, comments, tweets, likes, subscriptions, clock, gone>>
  /\ UNCHANGED <<videoDoc, playlists, list, stored, sess, boot>>
  /\ IF DuplicateKey(username, email)
       THEN UNCHANGED users /\ FinishCore(s, Conflict, FALSE, FALSE)
       ELSE /\ users' = users \cup { [id |-> NewUserId, username |-> username,
                                      email |-> email] }
            /\ ParkCore(s, [q EXCEPT !.pc = "findById", !.newId = NewUserId])

\* User.findById(user._id).select("-password -refreshToken"), the check of
\* its result and the 201.
RegisterFindById(s) ==
  LET q == reqs[s] IN
  /\ q.op = "registerUser" /\ q.pc = "findById"
  /\ UNCHANGED <<videos, comments, tweets, likes, subscriptions, clock, gone>>
  /\ UNCHANGED <<videoDoc, playlists, list, stored, sess, rest>>
  /\ IF \E u \in users : u.id = q.newId
       THEN FinishUser(s, 201,
              SelectWithout(NewUserPaths, {"password", "refreshToken"}))
       ELSE FinishCore(s, InternalError, FALSE, FALSE)

registerUser ==
  \/ \E body \in RegisterBodies : RegisterBegin(body)
  \/ \E s \in Slots :
       \/ RegisterExists(s)
       \/ RegisterUploadAvatar(s) \/ RegisterUploadCover(s)
       \/ RegisterCreate(s) \/ RegisterFindById(s)

(* ------------- user.controller.js: the profile handlers ---------------- *)
\* req.body of updateAccountDetails: both fields with a free email, both
\* fields with the email of another user, a field missing.
AccountBodies == {"e6", "e2", ""}

\* updateAccountDetails: the check of the body, User.findByIdAndUpdate with
\* $set and .select("-password"), and the 200; req.user is set by verifyJWT.
updateAccountDetails ==
  \E u \in AuthUsers, email \in AccountBodies :
    LET q == NewReq("updateAccountDetails", u, Null, <<>>)
        taken == \E x \in users : x.id # u /\ x.email = email
    IN
    /\ UNCHANGED <<videos, comments, tweets, likes, subscriptions, clock, gone>>
    /\ UNCHANGED <<videoDoc, playlists, list, stored, sess, boot>>
    /\ IF email = ""
         THEN UNCHANGED users /\ ImmediateUser(q, 400, {})
       ELSE IF UserSchemaUniqueKey /\ taken
         THEN UNCHANGED users /\ ImmediateUser(q, Conflict, {})
       ELSE /\ users' = { IF x.id = u THEN [x EXCEPT !.email = email] ELSE x :
                          x \in users }
            /\ ImmediateUser(q, 200, SelectWithout(UserPaths(u), {"password"}))

\* updateUserAvatar and updateUserCoverImage up to uploadOnCloudinary: the
\* check of req.file.
ImageBegin(op, u, file) ==
  LET q == NewReq(op, u, Null, <<>>) IN
  /\ UNCHANGED <<videos, comments, tweets, likes, subscriptions, clock, gone>>
  /\ UNCHANGED <<videoDoc, playlists, list, stored, sess, rest>>
  /\ IF ~file THEN ImmediateUser(q, 400, {})
     ELSE SuspendCore([q EXCEPT !.pc = "upload"])

\* uploadOnCloudinary resolves with null, without a url or with one: reading
\* .url of null throws a TypeError, no url is the 400.
ImageUploaded(s) ==
  LET q == reqs[s] IN
  /\ q.op \in {"updateUserAvatar", "updateUserCoverImage"} /\ q.pc = "upload"
  /\ UNCHANGED <<videos, comments, tweets, likes, subscriptions, clock, gone>>
  /\ UNCHANGED <<videoDoc, playlists, list, stored, sess, rest>>
  /\ \/ FinishUser(s, InternalError, {})
     \/ FinishUser(s, 400, {})
     \/ ParkCore(s, [q EXCEPT !.pc = "update"])

\* User.findByIdAndUpdate with $set and .select("-password"), and the 200.
ImageUpdate(s) ==
  LET q == reqs[s] IN
  /\ q.op \in {"updateUserAvatar", "updateUserCoverImage"} /\ q.pc = "update"
  /\ UNCHANGED <<videos, comments, tweets, likes, subscriptions, clock, gone>>
  /\ UNCHANGED <<videoDoc, playlists, list, stored, sess, rest>>
  /\ FinishUser(s, 200, SelectWithout(UserPaths(q.actor), {"password"}))

updateUserAvatar ==
  \/ \E u \in AuthUsers, file \in BOOLEAN :
       ImageBegin("updateUserAvatar", u, file)
  \/ \E s \in Slots :
       reqs[s].op = "updateUserAvatar" /\ (ImageUploaded(s) \/ ImageUpdate(s))

updateUserCoverImage ==
  \/ \E u \in AuthUsers, file \in BOOLEAN :
       ImageBegin("updateUserCoverImage", u, file)
  \/ \E s \in Slots :
       /\ reqs[s].op = "updateUserCoverImage"
       /\ (ImageUploaded(s) \/ ImageUpdate(s))

\* req.params.username of getUserChannelProfile: a stored username in
\* another case, one nobody has, a blank one.
ProfileParams == { <<"A">>, <<"d">>, <<" ">> }

\* The fields the $project stage keeps of the User document.
ChannelProjection ==
  {"_id", "fullName", "username", "avatar", "coverImage", "email"}

\* getUserChannelProfile: the check of the name, User.aggregate with $match
\* on username.toLowerCase() and $project, and the 200.
getUserChannelProfile ==
  \E u \in AuthUsers, name \in ProfileParams :
    LET q == NewReq("getUserChannelProfile", u, Null, <<>>)
        channel == { x \in users : x.username = ToLowerCase(name) }
    IN
    /\ UNCHANGED <<videos, comments, tweets, likes, subscriptions, clock, gone>>
    /\ UNCHANGED <<videoDoc, playlists, list, stored, sess, rest>>
    /\ IF Trim(name) = <<>> THEN ImmediateUser(q, 400, {})
       ELSE IF channel = {} THEN ImmediateUser(q, 404, {})
       ELSE ImmediateUser(q, 200,
              UNION { UserPaths(x.id) : x \in channel } \cap ChannelProjection)

(* ------------------------------- index.js ------------------------------ *)
\* process.env.PORT: not set, an empty string, a string that is no number,
\* or the digits of a number.
NoPort == [kind |-> "unset", n |-> 0]
PortEnvs ==
  { NoPort, [kind |-> "empty", n |-> 0], [kind |-> "text", n |-> 0] }
    \cup { [kind |-> "digits", n |-> n] : n \in {0, 80, 3000, 8000, 8080, 65535} }

\* The two versions of the start-up script that index.js holds: lines 1-19
\* and lines 20-38.
Scripts == {1, 2}
DefaultPort == 8000

\* a | b on non-negative 32-bit integers.
RECURSIVE BitOr(_, _)
BitOr(a, b) ==
  IF a = 0 THEN b
  ELSE IF b = 0 THEN a
  ELSE (IF a % 2 = 1 \/ b % 2 = 1 THEN 1 ELSE 0) + 2 * BitOr(a \div 2, b \div 2)

\* ToInt32 of the environment value: undefined and a string that is no
\* number give NaN, which is 0; the empty string is 0.
ToInt32(env) == IF env.kind = "digits" THEN env.n ELSE 0

\* process.env.PORT | 8000 (line 5)
PortBitOr(env) == BitOr(ToInt32(env), DefaultPort)

\* process.env.PORT || 8000 (line 24): undefined and "" are falsy; any other
\* string is taken as it is, and a string that is no number names no port.
PortOrElse(env) ==
  IF env.kind \in {"unset", "empty"} THEN DefaultPort
  ELSE IF env.kind = "digits" THEN env.n
  ELSE -1

\* The methods of the Express application that the script could call.
AppMethods == {"on", "listen", "use"}
\* The method the script calls to start the server (lines 13 and 32).
ListenCall == "lisen"

\* The script before it has run.
Booting(script, env) ==
  [pc |-> "start", script |-> script, env |-> env, port |-> 0,
   resolved |-> FALSE, rejected |-> FALSE, listening |-> FALSE,
   logged |-> FALSE]

BootStep(b) ==
  /\ boot' = b
  /\ UNCHANGED <<core, videoDoc, playlists, stored, sess, list, wire, users>>

\* const port = ...; connectDB() is called.
readPort ==
  /\ boot.pc = "start"
  /\ BootStep([boot EXCEPT
       !.port = IF boot.script = 1 THEN PortBitOr(boot.env)
                ELSE PortOrElse(boot.env),
       !.pc = "connecting"])

\* The promise of connectDB() resolves, or it rejects.
connectResolves ==
  /\ boot.pc = "connecting"
  /\ BootStep([boot EXCEPT !.resolved = TRUE, !.pc = "then"])

connectRejects ==
  /\ boot.pc = "connecting"
  /\ BootStep([boot EXCEPT !.rejected = TRUE, !.pc = "catch"])

\* The .then callback: app.on(...), then the call that starts the server.
\* Calling a method the application does not have throws a TypeError, which
\* rejects the promise of .then and so runs the .catch callback.
thenCallback ==
  /\ boot.pc = "then"
  /\ BootStep(IF ListenCall \in AppMethods
                THEN [boot EXCEPT !.listening = TRUE, !.pc = "done"]
                ELSE [boot EXCEPT !.pc = "catch"])

\* The .catch callback logs that the connection failed.
catchCallback ==
  /\ boot.pc = "catch"
  /\ BootStep([boot EXCEPT !.logged = TRUE, !.pc = "done"])

(* --------------------------- specifications ---------------------------- *)
InitRest(n) ==
  /\ videos = InitVideos
  /\ comments = InitComments
  /\ tweets = InitTweets
  /\ likes = {}
  /\ subscriptions = {}
  /\ reqs = [s \in Slots |-> Idle]
  /\ clock = 1
  /\ budget = n
  /\ resp = NoResp
  /\ gone = {}
  /\ odd = {}
  /\ iso = IsoIdle
  /\ videoDoc = InitVideoDoc
  /\ playlists = InitPlaylists
  /\ users = InitUsers

\* The state after start-up with n requests to come: no list query and no
\* response yet, nobody logged in.
InitWith(n) ==
  /\ InitRest(n)
  /\ stored = [u \in UserIds |-> Null]
  /\ sess = NoSess
  /\ list = NoListRequest
  /\ wire = NoWire
  /\ boot = NotBooting

\* The toggles and the deletions of what they point at.
Init == InitWith(MaxRowReq)
Next ==
  \/ toggleVideoLike
  \/ toggleCommentLike
  \/ toggleTweetLike
  \/ toggleSubscription
  \/ deleteVideo
  \/ deleteComment
  \/ deleteTweet
Spec == Init /\ [][Next]_vars

\* The like toggles alone.
InitLike == InitWith(MaxToggleReq)
NextLike == toggleVideoLike \/ toggleCommentLike \/ toggleTweetLike
SpecLike == InitLike /\ [][NextLike]_vars

\* The like toggles alone, in behaviours of fewer requests.
InitLikeShort == InitWith(MaxReq)
SpecLikeShort == InitLikeShort /\ [][NextLike]_vars

\* The subscription toggle alone.
InitSub == InitWith(MaxToggleReq)
NextSub == toggleSubscription
SpecSub == InitSub /\ [][NextSub]_vars

\* The comment handlers.
InitComment == InitWith(MaxReq)
NextComment == addComment \/ updateComment \/ deleteComment
SpecComment == InitComment /\ [][NextComment]_vars

\* Update and delete of comments, tweets and playlists.
InitAuthz == InitWith(MaxReq)
NextAuthz ==
  \/ updateComment
  \/ deleteComment
  \/ updateTweet
  \/ deleteTweet
  \/ updatePlaylist
  \/ deletePlaylist
SpecAuthz == InitAuthz /\ [][NextAuthz]_vars

\* The handlers that write a Video document.
InitVideo == InitWith(MaxReq)
NextVideo ==
  publishAVideo \/ updateVideo \/ deleteVideo \/ togglePublishStatus
SpecVideo == InitVideo /\ [][NextVideo]_vars

\* The tweet handlers.
InitTweet == InitWith(MaxReq)
NextTweet == createTweet \/ updateTweet \/ deleteTweet
SpecTweet == InitTweet /\ [][NextTweet]_vars

\* The playlist handlers.
InitPlaylist == InitWith(MaxReq)
NextPlaylist ==
  \/ createPlaylist
  \/ addVideoToPlaylist
  \/ removeVideoFromPlaylist
  \/ deletePlaylist
SpecPlaylist == InitPlaylist /\ [][NextPlaylist]_vars

\* The list handlers, each applied to one request.
InitList ==
  /\ InitRest(0)
  /\ stored = [u \in UserIds |-> Null]
  /\ sess = NoSess
  /\ wire = NoWire
  /\ boot = NotBooting
  /\ ListQuery
NextList ==
  \/ getAllVideos
  \/ getLikedVideos
  \/ getUserPlaylists
  \/ getUserTweets
  \/ getVideoComments
SpecList == InitList /\ [][NextList]_vars

\* The session handlers.
InitAuth == InitWith(MaxAuthReq)
NextAuth == loginUser \/ logoutUser \/ refreshAccessToken
SpecAuth == InitAuth /\ [][NextAuth]_vars

\* The registrations.
InitRegister == InitWith(MaxReq)
NextRegister == registerUser
SpecRegister == InitRegister /\ [][NextRegister]_vars

\* The user handlers that answer with a User document.
InitUser == InitWith(MaxReq)
NextUser ==
  \/ registerUser
  \/ loginUser
  \/ refreshAccessToken
  \/ updateAccountDetails
  \/ updateUserAvatar
  \/ updateUserCoverImage
  \/ getUserChannelProfile
SpecUser == InitUser /\ [][NextUser]_vars

\* The start-up script, from its first line to the end of its callbacks.
InitBoot ==
  /\ InitRest(0)
  /\ stored = [u \in UserIds |-> Null]
  /\ sess = NoSess
  /\ list = NoListRequest
  /\ wire = NoWire
  /\ \E script \in Scripts, env \in PortEnvs : boot = Booting(script, env)
NextBoot ==
  \/ readPort
  \/ connectResolves
  \/ connectRejects
  \/ thenCallback
  \/ catchCallback
SpecBoot == InitBoot /\ [][NextBoot]_vars

(* ------------------------------ properties ----------------------------- *)
\* The keys (op, actor, target) a toggle can be called with.
ToggleKeys ==
  (LikeOps \X (UserIds \cup {NoUser})
           \X (VideoParams \cup CommentParams \cup TweetParams))
  \cup ({"toggleSubscription"} \X UserIds \X ChannelParams)

\* C1: the Like collection holds at most one row per (likedBy, target) pair,
\* whatever the interleaving of the like toggles.
AtMostOneLikePerPair ==
  \A l1, l2 \in likes :
    (/\ l1.likedBy = l2.likedBy /\ l1.video = l2.video
     /\ l1.comment = l2.comment /\ l1.tweet = l2.tweet) => l1 = l2

\* C2: the Subscription collection holds at most one row per
\* (subscriber, channel) pair, whatever the interleaving of the toggles.
AtMostOneSubscriptionPerPair ==
  \A x1, x2 \in subscriptions :
    (x1.subscriber = x2.subscriber /\ x1.channel = x2.channel) => x1 = x2

\* C3: once every toggle on a key has completed, the key has exactly one
\* row if an odd number of them answered 200/201 and none if an even number.
RowsFollowParityOfSuccesses ==
  \A k \in ToggleKeys :
    InFlightOn(k[1], k[2], k[3]) = {} =>
      Count(likes, subscriptions, k[1], k[2], k[3])
        = IF k \in odd THEN 1 ELSE 0

\* C4: two successful toggles of one key run one after the other, with no
\* other request during or between them, leave as many rows of the key as
\* there were before the first.
DoubleToggleRestoresRows ==
  (iso.phase = 4 /\ iso.st1 \in {200, 201} /\ iso.st2 \in {200, 201})
    => iso.c2 = iso.c0

\* C5: with no Like (A, V) on the existing video V, toggleVideoLike answers
\* 201 {liked: true} and leaves one row; the next toggleVideoLike by A on V
\* answers 200 {liked: false} and leaves none.
LikeThenUnlikeScenario ==
  (/\ iso.op = "toggleVideoLike" /\ iso.actor # NoUser /\ iso.tgtOk
   /\ iso.c0 = 0 /\ iso.phase >= 2 /\ ~iso.fault1)
    => /\ iso.st1 = 201 /\ iso.liked1 /\ iso.c1 = 1
       /\ (iso.phase = 4 /\ ~iso.fault2)
            => (iso.st2 = 200 /\ ~iso.liked2 /\ iso.c2 = 0)

LikeThenUnlikeHappens ==
  /\ iso.op = "toggleVideoLike" /\ iso.phase = 4 /\ iso.c0 = 0
  /\ iso.st1 = 201 /\ iso.st2 = 200

\* C6: toggleSubscription on the caller's own channel answers 400 and
\* changes no Subscription row, so no (user, user) row ever exists.
SelfSubscriptionRejected ==
  /\ (resp.op = "toggleSubscription" /\ resp.target = resp.actor)
       => (resp.status = 400 /\ ~resp.wrote)
  /\ \A x \in subscriptions : x.subscriber # x.channel

\* C7: a like toggle that ends in an error response (401, 400, 404, or a
\* failure of findOne, deleteOne, create or commit) has changed no Like row.
FailedLikeToggleChangesNothing ==
  (resp.op \in LikeOps /\ resp.status >= 400) => ~resp.wrote

FailedCommitAfterCreate ==
  /\ resp.op \in LikeOps /\ resp.status = InternalError
  /\ resp.fault /\ resp.pend = "insert"

\* The entity a relation row points at exists.
LikeTargetExists(l) ==
  /\ l.video # Null => l.video \in videos
  /\ l.comment # Null => CommentExists(l.comment)
  /\ l.tweet # Null => \E t \in tweets : t.id = l.tweet

\* The entity a relation row points at exists or was deleted.
LikeTargetExisted(l) ==
  /\ l.video # Null => (l.video \in videos \/ <<"video", l.video>> \in gone)
  /\ l.comment # Null =>
       (CommentExists(l.comment) \/ <<"comment", l.comment>> \in gone)
  /\ l.tweet # Null =>
       ((\E t \in tweets : t.id = l.tweet) \/ <<"tweet", l.tweet>> \in gone)

\* C8 as stated: every Like or Subscription row references an entity that
\* currently exists.
NoRowPointsAtMissingEntity ==
  /\ \A l \in likes : LikeTargetExists(l)
  /\ \A x \in subscriptions : x.channel \in UserIds

\* C8 as amended: every Like or Subscription row references an entity that
\* exists or has existed; none points at a video, comment, tweet or channel
\* that never existed.
NoRowPointsAtNeverExistingEntity ==
  /\ \A l \in likes : LikeTargetExisted(l)
  /\ \A x \in subscriptions : x.channel \in UserIds

LikeOutlivesDeletedVideo ==
  \E l \in likes : l.video # Null /\ <<"video", l.video>> \in gone

\* C9: addComment on a well-formed videoId that names no Video answers 404
\* and creates no Comment; every Comment's video existed when it was created.
AddCommentNeedsExistingVideo ==
  /\ (/\ resp.op = "addComment" /\ isValidObjectId(resp.target)
      /\ resp.target \notin videos /\ resp.bodyOk /\ resp.actor # NoUser)
       => (resp.status = 404 /\ ~resp.wrote)
  /\ \A c \in comments : c.video \in videos \/ <<"video", c.video>> \in gone

\* C10: updateComment and deleteComment by a user who neither owns the
\* comment nor is an admin answer 403 and change nothing.
NonOwnerCannotChangeComment ==
  (/\ resp.op \in {"updateComment", "deleteComment"}
   /\ resp.actor \in UserIds /\ resp.bodyOk
   /\ CommentExists(resp.target)
   /\ CommentById(resp.target).owner # resp.actor
   /\ UserDoc(resp.actor).role # "admin" /\ ~UserDoc(resp.actor).isAdmin)
    => (resp.status = 403 /\ ~resp.wrote)

NonOwnerIsRejected ==
  /\ resp.op \in {"updateComment", "deleteComment"}
  /\ resp.status = 403
  /\ resp.actor \in UserIds /\ CommentExists(resp.target)
  /\ CommentById(resp.target).owner # resp.actor

\* The handlers the ownership rule applies to.
AuthzOps ==
  {"updateComment", "deleteComment", "updateTweet", "deleteTweet",
   "updatePlaylist", "deletePlaylist"}

\* C11: an update or delete of a Comment, Tweet or Playlist that has found
\* its document answers 403 exactly when the actor neither owns the document
\* nor has the role admin.
AuthorizationIsOwnerOrAdmin ==
  (resp.op \in AuthzOps /\ resp.actor \in UserIds /\ resp.owner # Null)
    => ((resp.status = 403)
          <=> ~(resp.owner = resp.actor
                \/ UserDoc(resp.actor).role = "admin"))

\* C13: no playlist holds the same video id twice.
PlaylistVideosHaveNoDuplicates ==
  \A p \in playlists :
    \A i, j \in 1..Len(p.videos) : p.videos[i] = p.videos[j] => i = j

AddOfVideoAlreadyThere ==
  /\ resp.op = "addVideoToPlaylist" /\ resp.status = 200
  /\ resp.pend = "present"
  /\ \E p \in playlists : p.id = resp.target /\ Len(p.videos) >= 1

\* C20: every stored tweet's content is trimmed, not empty and at most
\* MAX_TWEET_LENGTH characters long; a createTweet or updateTweet that passes
\* the checks before the content checks and whose trimmed content is empty
\* or too long answers 400 and changes no tweet.
TweetContentWithinLimit ==
  /\ \A t \in tweets :
       /\ t.content # <<>> /\ Trim(t.content) = t.content
       /\ Len(t.content) <= MAX_TWEET_LENGTH
  /\ (/\ resp.op \in {"createTweet", "updateTweet"} /\ ~resp.bodyOk
      /\ resp.actor \in UserIds
      /\ resp.op = "updateTweet" => resp.owner = resp.actor)
       => (resp.status = 400 /\ ~resp.wrote)

LongestTweetStoredAndLongerRejected ==
  /\ \E t \in tweets : Len(t.content) = MAX_TWEET_LENGTH
  /\ resp.op \in {"createTweet", "updateTweet"} /\ ~resp.bodyOk
  /\ resp.actor \in UserIds /\ resp.status = 400

\* C12: updateVideo, deleteVideo and togglePublishStatus issued by a user
\* who neither owns the video nor is an admin leave the video as it was.
OnlyOwnerOrAdminChangesVideo ==
  (/\ resp.op \in {"updateVideo", "deleteVideo", "togglePublishStatus"}
   /\ resp.actor \in UserIds /\ resp.owner # Null
   /\ resp.owner # resp.actor /\ UserDoc(resp.actor).role # "admin")
    => ~resp.wrote

ListOps ==
  {"getAllVideos", "getLikedVideos", "getUserPlaylists", "getUserTweets",
   "getVideoComments"}

\* C14: every list handler queries with a limit inside 1..100 and a page of
\* at least 1, whatever integers the limit and page parameters hold.
LimitAndPageAreClamped ==
  (list.op \in ListOps /\ list.status = 200)
    => (list.effLimit \in 1..100 /\ list.effPage >= 1)

\* The sort values a handler recognizes: the names oldest and newest, and
\* where the value is taken as a field, the fields of the documents.
Recognized(op) ==
  IF op \in {"getAllVideos", "getLikedVideos"}
    THEN {"oldest", "newest", "createdAt"}
    ELSE {"oldest", "newest"}

\* C15: a sort value that is none of the recognized options gives the
\* ordering newest, createdAt descending.
UnrecognizedSortIsNewest ==
  (/\ list.op \in ListOps /\ list.status = 200
   /\ list.sort.given /\ list.sort.name \notin Recognized(list.op))
    => list.stage = Newest

\* C16: the meta of getLikedVideos, getUserPlaylists and getUserTweets
\* reports ceil(total / limit) pages, and the total, page and limit of the
\* query.
MetaReportsCeilPages ==
  (/\ list.op \in {"getLikedVideos", "getUserPlaylists", "getUserTweets"}
   /\ list.status = 200)
    => /\ list.pages = Ceil(list.metaTotal, list.effLimit)
       /\ list.writes = 0 => list.metaTotal = list.n
       /\ list.metaPage = list.effPage /\ list.metaLimit = list.effLimit

\* Record i comes strictly before record j in the order of the sort stage.
Before(stage, i, j) ==
  IF stage.dir = 1
    THEN KeyOf(stage.field, i) < KeyOf(stage.field, j)
    ELSE KeyOf(stage.field, i) > KeyOf(stage.field, j)

\* The number of positions (p-1)*l+1 .. min(p*l, n): none when (p-1)*l >= n.
PageLen(n, p, l) == Max(0, Min(p * l, n) - (p - 1) * l)

\* rows holds the records at positions (p-1)*l+1 .. min(p*l, n) of a
\* sequence of the n matching records sorted by the stage: it has the
\* length of the page, repeats no record, is in the order of the stage, and
\* the record at position (p-1)*l+k has at most (p-1)*l+k-1 records
\* strictly before it and at least (p-1)*l+k records not after it.  Where
\* the keys differ that is one sequence of records; where keys are equal
\* every order of the records with one key is a sorted sequence.
IsPage(rows, n, stage, p, l) ==
  /\ Len(rows) = PageLen(n, p, l)
  /\ \A k \in DOMAIN rows :
       /\ rows[k] \in 1..n
       /\ \A j \in 1..(k - 1) :
            rows[j] # rows[k] /\ ~Before(stage, rows[k], rows[j])
       /\ Cardinality({ i \in 1..n : Before(stage, i, rows[k]) })
            <= (p - 1) * l + k - 1
       /\ Cardinality({ i \in 1..n : ~Before(stage, rows[k], i) })
            >= (p - 1) * l + k

EnvelopeIsUniform ==
  wire.op # "none" =>
    /\ wire.statusCode = Num(wire.http)
    /\ wire.fields = IF wire.http < 400
                       THEN {"statusCode", "message", "data"}
                       ELSE {"statusCode", "message"}

\* C19: a refreshAccessToken request that arrives after a logout of the user
\* has completed and presents a refresh token the user was sent before that,
\* with no login of the user since, answers 401 and stores no new token.
RefreshAfterLogoutFails ==
  (resp.op = "refreshAccessToken" /\ resp.pend = "revoked")
    => (resp.status = 401 /\ ~resp.wrote)

\* C22: no refresh token is redeemed twice: once a refreshAccessToken request
\* presenting a token has answered 200, no other request presenting that
\* token, later or concurrent, answers 200.
RefreshTokenRedeemedAtMostOnce == sess.again = {}

\* The key of the publish flag of a video among the toggles.
PublishKey(v) == <<"togglePublishStatus", NoUser, v>>

\* C23: the stored publish flag of a video differs from its original value
\* exactly when an odd number of togglePublishStatus calls on the video have
\* answered 200.
PublishFlagFollowsParity ==
  \A v \in videos \cap InitVideos :
    (IsPublished(videoDoc[v]) # IsPublished(InitVideoDoc[v]))
      <=> (PublishKey(v) \in odd)

\* C21: no two User documents share a stored username or an email, whatever
\* registerUser calls have run, one after the other or concurrently.
NoTwoUsersShareUsernameOrEmail ==
  \A a, b \in users :
    a.id # b.id => (a.username # b.username /\ a.email # b.email)

\* The handlers of user.controller.js whose data is taken from a User
\* document.
UserOps ==
  {"registerUser", "loginUser", "refreshAccessToken", "updateAccountDetails",
   "updateUserAvatar", "updateUserCoverImage", "getUserChannelProfile"}

\* The paths of a User document in the last response; an error envelope
\* has no data.
UserDataSent == IF "data" \in DOMAIN wire THEN wire.data ELSE {}

\* C24: no response of a user handler carries the password or the
\* refreshToken path of a User document.
ResponsesCarryNoSecrets ==
  wire.op \in UserOps => UserDataSent \cap {"password", "refreshToken"} = {}

\* The port the server is to listen on: PORT when it is set, else 8000.
ConfiguredPort(env) == IF env.kind = "digits" THEN env.n ELSE DefaultPort

\* C25: once the start-up script has run to its end, the server listens on
\* the configured port if connectDB resolved; and the connection-failure
\* message is logged only if connectDB rejected.
StartupListensUnlessConnectFails ==
  /\ boot.logged => boot.rejected
  /\ (boot.pc = "done" /\ boot.resolved)
       => (boot.listening /\ boot.port = ConfiguredPort(boot.env))

====
